---- MODULE Spec2Model ----
(***************************************************************************)
(* A model of the persistence core of the board application                *)
(* (src/app/src-tauri/src/lib.rs and model.rs): the document model and its *)
(* JSON encoding, the .fim container codec, the recovery files, the        *)
(* session state behind the commands, and the note linearizer.             *)
(*                                                                         *)
(* Conventions.  Option<T> is None or Some(v).  Result<T, String> is       *)
(* Ok(v) or Err(e) where e is the fixed prefix of the error message.       *)
(* A text is a sequence of character codes, so that str::cmp is the        *)
(* lexicographic order on sequences.  An f64 read from JSON is finite; it  *)
(* is modelled by an integer.  A path is [dir, name] where name is the     *)
(* file name split at its dots.                                            *)
(***************************************************************************)
EXTENDS Integers, Sequences, FiniteSets, TLC

VARIABLES
  fs,                     \* the file system: path -> file
  recent_files,           \* AppState.recent_files
  last_save_path,         \* AppState.last_save_path
  current_document_path,  \* AppState.current_document_path
  last_autosave_time,     \* AppState.last_autosave_time
  is_dirty,               \* AppState.is_dirty
  result,                 \* the command that ran last, with its arguments and result
  clock,                  \* the wall clock: one tick per command
  lin,                    \* the linearizer's last run: document, policy, output
  tasks                   \* the commands in flight: the holder of the state lock
                          \* and, for each task, its command and the statement it is at

vars == <<fs, recent_files, last_save_path, current_document_path,
          last_autosave_time, is_dirty, result, clock, lin, tasks>>

app_state_vars == <<recent_files, last_save_path, current_document_path,
                    last_autosave_time, is_dirty>>

---------------------------------------------------------------------------
(* Option and Result *)

None == [some |-> FALSE]
Some(x) == [some |-> TRUE, v |-> x]

Ok(x) == [ok |-> TRUE, v |-> x]
Err(e) == [ok |-> FALSE, e |-> e]

Last(s) == s[Len(s)]
Front(s) == SubSeq(s, 1, Len(s) - 1)

---------------------------------------------------------------------------
(* JSON values, as serde_json writes and reads them.  A "blob" is a JSON   *)
(* string whose content is abstracted to its length in bytes.              *)

JNull == [t |-> "null"]
JBool(b) == [t |-> "bool", v |-> b]
JNum(n) == [t |-> "num", v |-> n]
JStr(s) == [t |-> "str", v |-> s]
JBlob(b) == [t |-> "blob", v |-> b]
JArr(s) == [t |-> "arr", v |-> s]
JObj(m) == [t |-> "obj", v |-> m]

---------------------------------------------------------------------------
(* The document model (model.rs).  Each struct is its table of fields: the *)
(* Rust name, the JSON key (#[serde(rename)]), whether the field is an     *)
(* Option, and the type of the value.                                      *)

F64 == [k |-> "f64"]
U32 == [k |-> "u32"]
Bool == [k |-> "bool"]
String == [k |-> "String"]
Base64 == [k |-> "Base64"]     \* a String whose content is modelled by its length
Value == [k |-> "Value"]       \* serde_json::Value
Vec(T) == [k |-> "vec", of |-> T]
HashMap(T) == [k |-> "map", of |-> T]
Struct(fields) == [k |-> "struct", fields |-> fields]
Req(f, key, T) == [f |-> f, key |-> key, opt |-> FALSE, ty |-> T]
Opt(f, key, T) == [f |-> f, key |-> key, opt |-> TRUE, ty |-> T]
ID == String

Point == Struct(<<Req("x", "x", F64), Req("y", "y", F64)>>)

Rect == Struct(<<Req("x", "x", F64), Req("y", "y", F64),
                 Req("w", "w", F64), Req("h", "h", F64)>>)

TextStyle == Struct(<<
  Req("font", "font", String), Req("size", "size", F64),
  Opt("weight", "weight", U32), Opt("italic", "italic", Bool),
  Opt("underline", "underline", Bool), Opt("strike", "strike", Bool),
  Opt("color", "color", String), Opt("align", "align", String)>>)

BorderStyle == Struct(<<
  Opt("color", "color", String), Opt("width", "width", F64),
  Opt("style", "style", String)>>)

NoteStyle == Struct(<<
  Req("id", "id", ID), Req("text_style", "textStyle", TextStyle),
  Opt("fill", "fill", String), Opt("border", "border", BorderStyle),
  Opt("corner_radius", "cornerRadius", F64), Opt("shadow", "shadow", Bool)>>)

BackgroundStyle == Struct(<<
  Opt("color", "color", String), Opt("texture_id", "textureId", ID)>>)

GridStyle == Struct(<<
  Req("visible", "visible", Bool), Req("snap", "snap", Bool),
  Req("size", "size", F64)>>)

DocumentStyle == Struct(<<
  Opt("background", "background", BackgroundStyle),
  Opt("default_note_style_id", "defaultNoteStyleId", ID),
  Opt("default_shape_style_id", "defaultShapeStyleId", ID),
  Opt("grid", "grid", GridStyle)>>)

EmbeddedImage == Struct(<<
  Req("id", "id", ID), Req("mime", "mime", String),
  Req("width", "width", F64), Req("height", "height", F64),
  Opt("data_base64", "dataBase64", Base64), Opt("path", "path", String)>>)

ConnectionStyle == Struct(<<
  Opt("kind", "kind", String), Opt("arrows", "arrows", String),
  Opt("color", "color", String), Opt("width", "width", F64)>>)

Connection == Struct(<<
  Req("id", "id", ID), Req("src_note_id", "srcNoteId", ID),
  Req("dst_note_id", "dstNoteId", ID), Opt("style", "style", ConnectionStyle),
  Opt("label", "label", String), Opt("bend_points", "bendPoints", Vec(Point))>>)

BackgroundShape == Struct(<<
  Req("id", "id", ID), Req("frame", "frame", Rect),
  Opt("radius", "radius", F64), Opt("magnetic", "magnetic", Bool),
  Opt("style_id", "styleId", ID), Opt("label", "label", String)>>)

Stack == Struct(<<
  Req("id", "id", ID), Req("note_ids", "noteIds", Vec(ID)),
  Opt("orientation", "orientation", String), Opt("spacing", "spacing", F64),
  Opt("indent_levels", "indentLevels", HashMap(U32)),
  Opt("aligned_width", "alignedWidth", F64)>>)

Note == Struct(<<
  Req("id", "id", ID), Req("text", "text", String),
  Opt("rich_attrs", "richAttrs", HashMap(Value)), Req("frame", "frame", Rect),
  Opt("style_id", "styleId", ID), Opt("faded", "faded", Bool),
  Opt("stack_id", "stackId", ID), Opt("links", "links", Vec(String)),
  Opt("images", "images", Vec(ID)), Opt("connections", "connections", Vec(ID))>>)

BoardDocument == Struct(<<
  Req("schema_version", "schemaVersion", U32),
  Req("notes", "notes", Vec(Note)),
  Req("connections", "connections", Vec(Connection)),
  Req("shapes", "shapes", Vec(BackgroundShape)),
  Req("stacks", "stacks", Vec(Stack)),
  Req("note_styles", "noteStyles", Vec(NoteStyle)),
  Opt("document_style", "documentStyle", DocumentStyle),
  Opt("images", "images", Vec(EmbeddedImage))>>)

---------------------------------------------------------------------------
(* serde's derived Serialize and Deserialize, and serde_json's writer and  *)
(* reader, over the field tables.                                          *)

FieldAt(fields, key) == CHOOSE fld \in {fields[i] : i \in 1..Len(fields)} : fld.key = key
FieldOf(fields, f) == CHOOSE fld \in {fields[i] : i \in 1..Len(fields)} : fld.f = f
Keys(fields) == {fields[i].key : i \in 1..Len(fields)}
Names(fields) == {fields[i].f : i \in 1..Len(fields)}

RECURSIVE to_value(_, _)
to_value(T, x) ==
  CASE T.k \in {"f64", "u32"} -> JNum(x)
    [] T.k = "bool" -> JBool(x)
    [] T.k = "String" -> JStr(x)
    [] T.k = "Base64" -> JBlob(x)
    [] T.k = "Value" -> x
    [] T.k = "vec" -> JArr([i \in 1..Len(x) |-> to_value(T.of, x[i])])
    [] T.k = "map" -> JObj([key \in DOMAIN x |-> to_value(T.of, x[key])])
    [] T.k = "struct" ->
         JObj([key \in Keys(T.fields) |->
                 LET fld == FieldAt(T.fields, key) IN
                 IF fld.opt
                 THEN IF x[fld.f].some THEN to_value(fld.ty, x[fld.f].v) ELSE JNull
                 ELSE to_value(fld.ty, x[fld.f])])

\* whether serde accepts the JSON value j as a T
RECURSIVE accepts(_, _)
accepts(T, j) ==
  CASE T.k \in {"f64", "u32"} -> j.t = "num"
    [] T.k = "bool" -> j.t = "bool"
    [] T.k = "String" -> j.t = "str"
    [] T.k = "Base64" -> j.t = "blob"
    [] T.k = "Value" -> TRUE
    [] T.k = "vec" -> j.t = "arr" /\ \A i \in 1..Len(j.v) : accepts(T.of, j.v[i])
    [] T.k = "map" -> j.t = "obj" /\ \A key \in DOMAIN j.v : accepts(T.of, j.v[key])
    [] T.k = "struct" ->
         /\ j.t = "obj"
         /\ \A i \in 1..Len(T.fields) :
              LET fld == T.fields[i] IN
              IF fld.opt
              THEN fld.key \in DOMAIN j.v /\ j.v[fld.key].t # "null"
                     => accepts(fld.ty, j.v[fld.key])
              ELSE fld.key \in DOMAIN j.v /\ accepts(fld.ty, j.v[fld.key])

RECURSIVE from_value(_, _)
from_value(T, j) ==
  CASE T.k \in {"f64", "u32", "bool", "String", "Base64"} -> j.v
    [] T.k = "Value" -> j
    [] T.k = "vec" -> [i \in 1..Len(j.v) |-> from_value(T.of, j.v[i])]
    [] T.k = "map" -> [key \in DOMAIN j.v |-> from_value(T.of, j.v[key])]
    [] T.k = "struct" ->
         [f \in Names(T.fields) |->
            LET fld == FieldOf(T.fields, f) IN
            IF fld.opt
            THEN IF fld.key \in DOMAIN j.v /\ j.v[fld.key].t # "null"
                 THEN Some(from_value(fld.ty, j.v[fld.key]))
                 ELSE None
            ELSE from_value(fld.ty, j.v[fld.key])]

\* the number of bytes serde_json writes for a value: the bytes of the
\* abstracted strings, and at least one byte for every other token
RECURSIVE SumSeq(_, _), SumMap(_, _, _), JsonLen(_)
JsonLen(j) ==
  CASE j.t = "blob" -> j.v.bytes + 2
    [] j.t = "arr" -> 2 + SumSeq(j.v, Len(j.v))
    [] j.t = "obj" -> 2 + SumMap(j.v, DOMAIN j.v, 0)
    [] OTHER -> 1
SumSeq(s, n) == IF n = 0 THEN 0 ELSE JsonLen(s[n]) + SumSeq(s, n - 1)
SumMap(m, keys, acc) ==
  IF keys = {} THEN acc
  ELSE LET key == CHOOSE key \in keys : TRUE IN
       SumMap(m, keys \ {key}, acc + 1 + JsonLen(m[key]))

\* serde_json::to_string_pretty: the text of a value, with its length
to_string_pretty(T, x) ==
  LET j == to_value(T, x) IN [json |-> j, len |-> JsonLen(j), complete |-> TRUE]

\* Read::take(limit) followed by read_to_string: at most limit bytes of the text
\* a text followed by pad bytes of white space
Padded(text, pad) ==
  [json |-> text.json, len |-> text.len + pad, complete |-> text.complete,
   body |-> text.len]

\* the bytes of a text up to the end of its JSON value
body_len(text) == IF "body" \in DOMAIN text THEN text.body ELSE text.len

\* Read::take: the first limit bytes; a cut within the JSON value leaves it
\* incomplete, a cut within the white space after it does not
take(text, limit) ==
  IF text.len <= limit THEN text
  ELSE [json |-> text.json, len |-> limit,
        complete |-> text.complete /\ body_len(text) <= limit]

\* serde_json::from_str: a cut text is no JSON document
from_str(T, text, msg) ==
  IF text.complete /\ accepts(T, text.json)
  THEN Ok(from_value(T, text.json))
  ELSE Err(msg)

---------------------------------------------------------------------------
(* Paths (std::path) and files *)

extension(path) == IF Len(path.name) >= 2 THEN Last(path.name) ELSE ""

\* Path::set_extension / with_extension: the text after the last dot of the
\* file name is replaced; ext may itself hold dots
set_extension(path, ext) ==
  [path EXCEPT !.name = (IF Len(@) >= 2 THEN Front(@) ELSE @) \o ext]

get_recovery_path(original_path) ==
  set_extension(original_path, <<"fim", "recovery">>)

metadata_path_of(recovery_path) ==
  set_extension(recovery_path, <<"fim", "recovery", "meta">>)

NoFile == [kind |-> "none"]
TextFile(text) == [kind |-> "text", text |-> text]
ZipFile(entries) == [kind |-> "zip", entries |-> entries]
ZipEntry(name, text) == [name |-> name, is_dir |-> FALSE, text |-> text]
ZipDir(name) == [name |-> name, is_dir |-> TRUE]

exists(files, path) == path \in DOMAIN files /\ files[path].kind # "none"

\* the file with its modification time, an instant of the clock; the time is
\* kept for the files whose time the program reads, the recovery containers
Modified(file, now) == [kind |-> file.kind, entries |-> file.entries, modified |-> now]
modified(file) == IF "modified" \in DOMAIN file THEN file.modified ELSE 0

\* the instants of the clock in one second; Duration::as_secs drops the rest
TICKS_PER_SECOND == 2
as_secs(instant) == instant \div TICKS_PER_SECOND
from_timestamp(secs) == secs * TICKS_PER_SECOND

DateTime == [k |-> "u32"]     \* chrono::DateTime<Utc>: an instant, a tick of the clock

AutosaveInfo == Struct(<<
  Req("original_path", "original_path", String),
  Req("recovery_path", "recovery_path", String),
  Req("timestamp", "timestamp", DateTime)>>)

MAX_RECENT_FILES == 10
READ_LIMIT == 100000000

---------------------------------------------------------------------------
(* The .fim container *)

\* save_as_fim with the document under another entry name
save_as_fim_other_entry(doc) ==
  ZipFile(<<ZipEntry("document.json", to_string_pretty(BoardDocument, doc)),
            ZipDir("media/")>>)

\* what save_as_fim leaves at the path
save_as_fim(doc) ==
  ZipFile(<<ZipEntry("board.json", to_string_pretty(BoardDocument, doc)),
            ZipDir("media/")>>)

load_from_fim(files, path) ==
  LET file == files[path] IN
  IF file.kind = "none" THEN Err("Failed to open file")
  ELSE IF file.kind # "zip" THEN Err("Failed to read zip file")
  ELSE LET found == {i \in 1..Len(file.entries) : file.entries[i].name = "board.json"} IN
       IF found = {}
       THEN Err("Failed to find board.json in zip")
       ELSE LET board_json_file == file.entries[CHOOSE i \in found : TRUE]
                json_content == take(board_json_file.text, READ_LIMIT)
            IN from_str(BoardDocument, json_content, "Invalid JSON format in board.json")

---------------------------------------------------------------------------
(* The documents the editor hands to the commands, and the files found on  *)
(* disk when the application starts.                                       *)

MaxVersion == 2      \* schema versions 0..MaxVersion
MaxStoreOps == 2     \* commands per run of the open/save session
MaxRecoveryOps == 3  \* commands per run of the recovery session, before a last discovery

BlankDocument(version) ==
  [schema_version |-> version, notes |-> <<>>, connections |-> <<>>,
   shapes |-> <<>>, stacks |-> <<>>, note_styles |-> <<>>,
   document_style |-> None, images |-> None]

Frame(x, y) == [x |-> x, y |-> y, w |-> 120, h |-> 40]

\* a note with every optional field absent
BareNote(id, text, x, y) ==
  [id |-> id, text |-> text, rich_attrs |-> None, frame |-> Frame(x, y),
   style_id |-> None, faded |-> None, stack_id |-> None, links |-> None,
   images |-> None, connections |-> None]

\* a note with every optional field present
FullNote(id, text, x, y) ==
  [id |-> id, text |-> text, rich_attrs |-> Some([bold |-> JBool(TRUE)]),
   frame |-> Frame(x, y), style_id |-> Some("s1"), faded |-> Some(TRUE),
   stack_id |-> Some("k1"), links |-> Some(<<"http://x">>),
   images |-> Some(<<"i1">>), connections |-> Some(<<"c1">>)]

BareConnection(id, src, dst) ==
  [id |-> id, src_note_id |-> src, dst_note_id |-> dst, style |-> None,
   label |-> None, bend_points |-> None]

LabelledConnection(id, src, dst, label) ==
  [id |-> id, src_note_id |-> src, dst_note_id |-> dst,
   style |-> Some([kind |-> Some("dotted"), arrows |-> Some("none"),
                   color |-> None, width |-> Some(2)]),
   label |-> Some(label), bend_points |-> Some(<<[x |-> 1, y |-> 2]>>)]

StackOf(id, note_ids) ==
  [id |-> id, note_ids |-> note_ids, orientation |-> None, spacing |-> None,
   indent_levels |-> None, aligned_width |-> None]

Image(id, bytes) ==
  [id |-> id, mime |-> "image/png", width |-> 16, height |-> 16,
   data_base64 |-> Some([bytes |-> bytes]), path |-> None]

\* a document that uses every struct of the model, optional fields present
FullDocument(version) ==
  [schema_version |-> version,
   notes |-> <<FullNote("n1", <<97>>, 0, 0), BareNote("n2", <<98>>, 200, -150)>>,
   connections |-> <<LabelledConnection("c1", "n1", "n2", <<122>>),
                     BareConnection("c2", "n2", "n1")>>,
   shapes |-> <<[id |-> "b1", frame |-> Frame(0, 0), radius |-> Some(4),
                 magnetic |-> None, style_id |-> None, label |-> Some("area")]>>,
   stacks |-> <<[id |-> "k1", note_ids |-> <<"n1">>, orientation |-> Some("v"),
                 spacing |-> Some(8), indent_levels |-> Some([n1 |-> 1]),
                 aligned_width |-> None]>>,
   note_styles |-> <<[id |-> "s1",
                      text_style |-> [font |-> "Helvetica", size |-> 12,
                                      weight |-> Some(700), italic |-> None,
                                      underline |-> None, strike |-> Some(FALSE),
                                      color |-> Some("#000"), align |-> None],
                      fill |-> Some("#fff"),
                      border |-> Some([color |-> None, width |-> Some(1),
                                       style |-> Some("solid")]),
                      corner_radius |-> None, shadow |-> Some(TRUE)]>>,
   document_style |-> Some([background |-> Some([color |-> Some("#eee"),
                                                 texture_id |-> None]),
                            default_note_style_id |-> Some("s1"),
                            default_shape_style_id |-> None,
                            grid |-> Some([visible |-> TRUE, snap |-> FALSE,
                                           size |-> 10])]),
   images |-> Some(<<Image("i1", 4)>>)]

\* a valid document whose board.json is larger than the read limit
HugeDocument ==
  [BlankDocument(1) EXCEPT !.images = Some(<<Image("i1", READ_LIMIT)>>)]

EditorDocuments ==
  {BlankDocument(0), BlankDocument(1), HugeDocument}
    \cup {FullDocument(v) : v \in 1..MaxVersion}

P(name) == [dir |-> <<"tmp">>, name |-> name]

DocumentPaths ==
  {P(<<"foo", "fim">>), P(<<"foo", "json">>), P(<<"bar", "fim">>), P(<<"foo", "txt">>)}

RecoveryPaths == {get_recovery_path(p) : p \in DocumentPaths}
MetadataPaths == {metadata_path_of(p) : p \in RecoveryPaths}
AllPaths == DocumentPaths \cup RecoveryPaths \cup MetadataPaths

\* a file as another program left it: a document of any version in the
\* format of the path's extension, or something that is no document
write_document(doc, path) ==
  IF extension(path) = "json"
  THEN TextFile(to_string_pretty(BoardDocument, doc))
  ELSE save_as_fim(doc)

\* a document no editor session of the model produces
ForeignDocument(version) ==
  [BlankDocument(version) EXCEPT !.notes = <<BareNote("f1", <<102>>, 0, 0)>>]

ForeignFiles(path) ==
  {write_document(ForeignDocument(v), path) : v \in 0..MaxVersion}
    \cup {ZipFile(<<ZipDir("media/")>>),
          ZipFile(<<ZipEntry("board.json",
                             Padded(to_string_pretty(BoardDocument, ForeignDocument(1)),
                                    READ_LIMIT))>>)}

---------------------------------------------------------------------------
(* The commands.  Each runs to completion; `result` records the command,   *)
(* its arguments and what it returned.                                     *)

\* the schema validation without the test for newer versions
schema_validation_no_upper(doc) ==
  IF doc.schema_version = 0 THEN Err("Invalid or missing schema version")
  ELSE Ok(doc)

\* the schema validation of the open commands
schema_validation(doc) ==
  IF doc.schema_version = 0 THEN Err("Invalid or missing schema version")
  ELSE IF doc.schema_version > 1 THEN Err("Unsupported schema version")
  ELSE Ok(doc)

\* a match on the extension that reads every other extension as JSON
read_by_extension_json_default(files, path) ==
  IF extension(path) = "fim" THEN load_from_fim(files, path)
  ELSE IF ~exists(files, path) \/ files[path].kind # "text"
       THEN Err("Failed to read file")
       ELSE from_str(BoardDocument, files[path].text, "Invalid JSON format")

\* the match on the extension in the open commands
read_by_extension(files, path) ==
  CASE extension(path) = "fim" -> load_from_fim(files, path)
    [] extension(path) = "json" ->
         IF ~exists(files, path) \/ files[path].kind # "text"
         THEN Err("Failed to read file")
         ELSE from_str(BoardDocument, files[path].text, "Invalid JSON format")
    [] OTHER -> Err("Unsupported file format. Supported formats: .fim, .json")

\* read, then validate
load_document(files, path) ==
  LET doc == read_by_extension(files, path) IN
  IF doc.ok THEN schema_validation(doc.v) ELSE doc

\* retain and push_front, without the pop_back
add_recent_unbounded(recent, path_str) ==
  <<path_str>> \o SelectSeq(recent, LAMBDA q : q # path_str)

\* push_front and pop_back, without the retain
add_recent_no_retain(recent, path_str) ==
  LET added == <<path_str>> \o recent IN
  IF Len(added) > MAX_RECENT_FILES THEN Front(added) ELSE added

\* retain, push_front, pop_back
add_recent(recent, path_str) ==
  LET added == <<path_str>> \o SelectSeq(recent, LAMBDA q : q # path_str) IN
  IF Len(added) > MAX_RECENT_FILES THEN Front(added) ELSE added

\* a cleanup that leaves the metadata sidecar behind
remove_file_payload_only(files, path, failing) ==
  IF exists(files, path) /\ path \notin failing /\ Last(path.name) # "meta"
  THEN [files EXCEPT ![path] = NoFile]
  ELSE files

\* std::fs::remove_file behind `let _ =`: the file goes unless the removal fails
remove_file(files, path, failing) ==
  IF exists(files, path) /\ path \notin failing
  THEN [files EXCEPT ![path] = NoFile]
  ELSE files

Tick == clock' = clock + 1

\* picked: the path chosen in the dialog, None when the user cancels
open_document(picked) ==
  /\ Tick
  /\ LET res == IF picked.some THEN load_document(fs, picked.v)
                ELSE Err("Operation cancelled by user")
     IN /\ result' = [cmd |-> "open_document", picked |-> picked, res |-> res]
        /\ recent_files' = IF res.ok THEN add_recent(recent_files, picked.v)
                           ELSE recent_files
  /\ UNCHANGED <<fs, last_save_path, current_document_path, last_autosave_time,
                 is_dirty, lin, tasks>>

open_specific_document(file_path) ==
  /\ Tick
  /\ LET res == load_document(fs, file_path)
     IN /\ result' = [cmd |-> "open_specific_document", picked |-> Some(file_path),
                      res |-> res]
        /\ recent_files' = IF res.ok THEN add_recent(recent_files, file_path)
                           ELSE recent_files
  /\ UNCHANGED <<fs, last_save_path, current_document_path, last_autosave_time,
                 is_dirty, lin, tasks>>

\* the validation at the head of save_document
save_validation(doc) ==
  IF doc.schema_version = 0
  THEN Err("Cannot save document with invalid schema version")
  ELSE Ok(doc)

\* failing: the paths whose removal the file system refuses
save_document(doc, picked, failing) ==
  /\ Tick
  /\ LET res ==
           IF ~save_validation(doc).ok THEN save_validation(doc)
           ELSE IF ~picked.some THEN Err("Save operation cancelled by user")
           ELSE IF extension(picked.v) \notin {"fim", "json"}
                THEN Err("Unsupported file format. Supported formats: .fim, .json")
           ELSE Ok(picked.v)
         cleanup == IF res.ok
                    THEN {get_recovery_path(picked.v),
                          metadata_path_of(get_recovery_path(picked.v))}
                    ELSE {}
     IN /\ result' = [cmd |-> "save_document", doc |-> doc, picked |-> picked,
                      failing |-> failing,
                      removed |-> {q \in cleanup : exists(fs, q) /\ q \notin failing},
                      res |-> res]
        /\ IF res.ok
           THEN LET path == picked.v
                    recovery_path == get_recovery_path(path)
                    metadata_path == metadata_path_of(recovery_path)
                    written == [fs EXCEPT ![path] = write_document(doc, path)]
                IN /\ fs' = remove_file(remove_file(written, recovery_path, failing),
                                        metadata_path, failing)
                   /\ last_save_path' = Some(path)
                   /\ current_document_path' = Some(path)
                   /\ is_dirty' = FALSE
                   /\ last_autosave_time' = Some(clock)
                   /\ recent_files' = add_recent(recent_files, path)
           ELSE UNCHANGED <<fs, app_state_vars>>
  /\ UNCHANGED <<lin, tasks>>

get_recent_files ==
  /\ Tick
  /\ result' = [cmd |-> "get_recent_files", res |-> Ok(recent_files)]
  /\ UNCHANGED <<fs, app_state_vars, lin, tasks>>

clear_recent_files ==
  /\ Tick
  /\ recent_files' = <<>>
  /\ result' = [cmd |-> "clear_recent_files", res |-> Ok(<<>>)]
  /\ UNCHANGED <<fs, last_save_path, current_document_path, last_autosave_time,
                 is_dirty, lin, tasks>>

\* the validation at the head of autosave_document
autosave_validation(doc) ==
  IF doc.schema_version = 0
  THEN Err("Cannot autosave document with invalid schema version")
  ELSE Ok(doc)

\* save_as_recovery writing the container over the original document
save_as_recovery_in_place(files, doc, original_path, now) ==
  LET recovery_path == get_recovery_path(original_path)
      autosave_info == [original_path |-> original_path,
                        recovery_path |-> recovery_path, timestamp |-> now]
      metadata_path == metadata_path_of(recovery_path)
      with_metadata == [files EXCEPT ![metadata_path] =
                           TextFile(to_string_pretty(AutosaveInfo, autosave_info))]
  IN [files |-> [with_metadata EXCEPT ![original_path] = Modified(save_as_fim(doc), now)],
      res |-> Ok(autosave_info)]

\* the files after save_as_recovery: the metadata first, then the container
save_as_recovery(files, doc, original_path, now) ==
  LET recovery_path == get_recovery_path(original_path)
      autosave_info == [original_path |-> original_path,
                        recovery_path |-> recovery_path, timestamp |-> now]
      metadata_path == metadata_path_of(recovery_path)
      with_metadata == [files EXCEPT ![metadata_path] =
                           TextFile(to_string_pretty(AutosaveInfo, autosave_info))]
  IN [files |-> [with_metadata EXCEPT ![recovery_path] = Modified(save_as_fim(doc), now)],
      res |-> Ok(autosave_info)]

autosave_document(doc, file_path) ==
  /\ Tick
  /\ IF ~autosave_validation(doc).ok
     THEN /\ result' = [cmd |-> "autosave_document", doc |-> doc,
                        file_path |-> file_path, res |-> autosave_validation(doc)]
          /\ UNCHANGED <<fs, app_state_vars>>
     ELSE LET saved == save_as_recovery(fs, doc, file_path, clock) IN
          /\ fs' = saved.files
          /\ result' = [cmd |-> "autosave_document", doc |-> doc,
                        file_path |-> file_path, res |-> saved.res]
          /\ last_autosave_time' = Some(clock)
          /\ is_dirty' = FALSE
          /\ UNCHANGED <<recent_files, last_save_path, current_document_path>>
  /\ UNCHANGED <<lin, tasks>>

set_document_dirty(dirty) ==
  /\ Tick
  /\ is_dirty' = dirty
  /\ result' = [cmd |-> "set_document_dirty", res |-> Ok(dirty)]
  /\ UNCHANGED <<fs, recent_files, last_save_path, current_document_path,
                 last_autosave_time, lin, tasks>>

set_current_document_path(file_path) ==
  /\ Tick
  /\ current_document_path' = Some(file_path)
  /\ last_autosave_time' = None
  /\ result' = [cmd |-> "set_current_document_path", res |-> Ok(file_path)]
  /\ UNCHANGED <<fs, recent_files, last_save_path, is_dirty, lin, tasks>>

\* what get_autosave_status returns for the session's current document
autosave_status(files, current) ==
  IF ~current.some THEN Ok(None)
  ELSE LET recovery_path == get_recovery_path(current.v)
           metadata_path == metadata_path_of(recovery_path)
       IN IF ~exists(files, metadata_path) THEN Ok(None)
          ELSE IF files[metadata_path].kind # "text"
               THEN Err("Failed to read recovery metadata")
          ELSE LET info == from_str(AutosaveInfo, files[metadata_path].text,
                                    "Failed to parse recovery metadata")
               IN IF info.ok THEN Ok(Some(info.v)) ELSE info

get_autosave_status ==
  /\ Tick
  /\ result' = [cmd |-> "get_autosave_status",
                res |-> autosave_status(fs, current_document_path)]
  /\ UNCHANGED <<fs, app_state_vars, lin, tasks>>

\* the original path recover_from_autosave derives from the recovery path
recovered_document_path(path) ==
  IF Len(path.dir) = 0 THEN None
  ELSE Some([dir |-> path.dir, name |-> <<Last(path.dir)>>])

recover_from_autosave(recovery_path) ==
  /\ Tick
  /\ LET res == IF ~exists(fs, recovery_path) THEN Err("Recovery file not found")
                ELSE load_from_fim(fs, recovery_path)
     IN /\ result' = [cmd |-> "recover_from_autosave",
                      recovery_path |-> recovery_path, res |-> res]
        /\ IF res.ok
           THEN /\ current_document_path' =
                     (IF recovered_document_path(recovery_path).some
                      THEN recovered_document_path(recovery_path)
                      ELSE current_document_path)
                /\ is_dirty' = TRUE
                /\ last_autosave_time' = None
                /\ UNCHANGED <<recent_files, last_save_path>>
           ELSE UNCHANGED app_state_vars
  /\ UNCHANGED <<fs, lin, tasks>>

\* i32::cmp and f64::partial_cmp on the modelled numbers
num_cmp(a, b) == IF a < b THEN -1 ELSE IF a > b THEN 1 ELSE 0

\* slice::sort_by on a short slice: the stable insertion sort, each element
\* moved left past the elements it compares Less than; cmp[a, b] is the
\* closure's answer for a and b
sort_by(s, cmp) ==
  LET insert_tail(sorted, tail) ==
        LET stay == {j \in 1..Len(sorted) : cmp[tail, sorted[j]] # -1}
            at == IF stay = {} THEN 0 ELSE CHOOSE j \in stay : \A k \in stay : k <= j
        IN SubSeq(sorted, 1, at) \o <<tail>> \o SubSeq(sorted, at + 1, Len(sorted))
      sorted_prefix[n \in 0..Len(s)] ==
        IF n = 0 THEN <<>> ELSE insert_tail(sorted_prefix[n - 1], s[n])
  IN sorted_prefix[Len(s)]

\* the elements of a Vec
elements(s) == {s[i] : i \in 1..Len(s)}

\* the directories check_for_recovery_files searches: the temporary
\* directory, the current directory, the home and the documents directory
TempDir == <<"tmp">>
SearchPaths ==
  {<<TempDir, <<"work">>, <<"home">>, <<"home", "Documents">>>>,
   <<TempDir, TempDir, <<"home">>, <<"home", "Documents">>>>}

\* name_str.ends_with(".fim.recovery")
is_recovery_name(name) ==
  Len(name) >= 3 /\ name[Len(name) - 1] = "fim" /\ name[Len(name)] = "recovery"

\* name_str.replace(".recovery", "")
original_filename(name) ==
  SelectSeq(name, LAMBDA part : part # "recovery") 

\* the permutations of a set of at most two recovery files, as sequences
Listings(files) ==
  LET found == {p \in DOMAIN files : exists(files, p) /\ is_recovery_name(p.name)}
  IN {l \in UNION {[1..n -> found] : n \in 0..2} :
        /\ Len(l) = Cardinality(found)
        /\ \A i \in 1..Len(l) : \A j \in 1..Len(l) : i # j => l[i] # l[j]}

\* the scan of check_for_recovery_files, before its sort.  listing: the
\* recovery files of the temporary directory in the order read_dir yields
\* them; every other directory searched holds none
scan_search_paths(files, search_paths, listing) ==
  LET entries_of(dir) == IF dir = TempDir THEN listing ELSE <<>>
      info(path) ==
        [recovery_path |-> path,
         original_path |-> [dir |-> path.dir, name |-> original_filename(path.name)],
         timestamp |-> from_timestamp(as_secs(modified(files[path])))]
      found[k \in 0..Len(search_paths)] ==
        IF k = 0 THEN <<>>
        ELSE found[k - 1] \o [i \in 1..Len(entries_of(search_paths[k])) |->
                                info(entries_of(search_paths[k])[i])]
  IN found[Len(search_paths)]

\* check_for_recovery_files without its sort
check_for_recovery_files_unsorted(files, search_paths, listing) ==
  Ok(scan_search_paths(files, search_paths, listing))

check_for_recovery_files(files, search_paths, listing) ==
  LET recovery_files == scan_search_paths(files, search_paths, listing)
  IN Ok(sort_by(recovery_files,
                [a \in elements(recovery_files), b \in elements(recovery_files) |->
                   num_cmp(b.timestamp, a.timestamp)]))

check_recovery_files(search_paths, listing) ==
  /\ Tick
  /\ result' = [cmd |-> "check_recovery_files",
                res |-> check_for_recovery_files(fs, search_paths, listing)]
  /\ UNCHANGED <<fs, app_state_vars, lin, tasks>>

---------------------------------------------------------------------------
(* The note linearizer *)

\* str::cmp: -1, 0, 1 for Less, Equal, Greater (bytewise lexicographic)
str_cmp(a, b) ==
  LET differ == {i \in 1..Len(a) : i > Len(b) \/ a[i] # b[i]} IN
  IF differ = {}
  THEN IF Len(a) = Len(b) THEN 0 ELSE -1
  ELSE LET i == CHOOSE i \in differ : \A j \in differ : i <= j IN
       IF i > Len(b) THEN 1 ELSE IF a[i] < b[i] THEN -1 ELSE 1

\* iter().find(|n| n.id == id): the first note with the id, if any
find_note(notes, id) ==
  LET found == {i \in 1..Len(notes) : notes[i].id = id} IN
  IF found = {} THEN None
  ELSE Some(notes[CHOOSE i \in found : \A j \in found : i <= j])

ROW_HEIGHT == 100

\* (frame.y / 100.0) as i32: the quotient, cut towards zero
row_of(note) ==
  IF note.frame.y >= 0 THEN note.frame.y \div ROW_HEIGHT
  ELSE -((-note.frame.y) \div ROW_HEIGHT)

spatial_cmp(a, b) ==
  IF num_cmp(row_of(a), row_of(b)) # 0 THEN num_cmp(row_of(a), row_of(b))
  ELSE num_cmp(a.frame.x, b.frame.x)

order_notes_spatially(doc) ==
  sort_by(doc.notes,
          [a \in elements(doc.notes), b \in elements(doc.notes) |-> spatial_cmp(a, b)])

\* HashSet::new(): an empty set under the hasher keys of this run; contains
\* and insert do not depend on the keys, the iteration order would
HashSet_new(keys) == [keys |-> keys, items |-> {}]
contains(set, x) == x \in set.items
insert(set, x) == [set EXCEPT !.items = @ \cup {x}]

\* the traversal's variables: ordered and processed of the code; via names,
\* for each note of ordered, how it was reached ("root", "orphan", "stack", or
\* the id of the connection whose destination it is) and is read by no step
push(st, note, how) ==
  [ordered |-> Append(st.ordered, note),
   processed |-> insert(st.processed, note.id),
   via |-> Append(st.via, how)]

has_incoming(doc, note) ==
  \E i \in 1..Len(doc.connections) : doc.connections[i].dst_note_id = note.id

label_of(conn) == IF conn.label.some THEN conn.label.v ELSE <<>>

text_of(doc, id) ==
  IF find_note(doc.notes, id).some THEN find_note(doc.notes, id).v.text ELSE <<>>

\* the outgoing connections compared by destination text alone
outgoing_cmp_by_text(doc, a, b) ==
  str_cmp(text_of(doc, a.dst_note_id), text_of(doc, b.dst_note_id))

\* the comparison of two outgoing connections
outgoing_cmp(doc, a, b) ==
  IF label_of(a) # <<>> /\ label_of(b) # <<>>
  THEN str_cmp(label_of(a), label_of(b))
  ELSE str_cmp(text_of(doc, a.dst_note_id), text_of(doc, b.dst_note_id))

RECURSIVE add_connected_notes_recursive(_, _, _), visit_outgoing(_, _, _, _)
add_connected_notes_recursive(note_id, doc, st) ==
  LET from_note == SelectSeq(doc.connections, LAMBDA c : c.src_note_id = note_id)
      outgoing == sort_by(from_note,
                          [a \in elements(from_note), b \in elements(from_note) |->
                             outgoing_cmp(doc, a, b)])
  IN visit_outgoing(outgoing, 1, doc, st)

\* the loop over the sorted outgoing connections, from the i-th on
visit_outgoing(outgoing, i, doc, st) ==
  IF i > Len(outgoing) THEN st
  ELSE LET conn == outgoing[i]
           target_note == find_note(doc.notes, conn.dst_note_id)
       IN IF ~contains(st.processed, conn.dst_note_id) /\ target_note.some
          THEN visit_outgoing(outgoing, i + 1, doc,
                 add_connected_notes_recursive(conn.dst_note_id, doc,
                    [ordered |-> Append(st.ordered, target_note.v),
                     processed |-> insert(st.processed, conn.dst_note_id),
                     via |-> Append(st.via, conn.id)]))
          ELSE visit_outgoing(outgoing, i + 1, doc, st)

\* the first loop of order_notes_by_connections: the roots and what they reach
roots_traversal(doc, keys) ==
  LET root_notes == SelectSeq(doc.notes, LAMBDA note : ~has_incoming(doc, note))
      roots[n \in 0..Len(root_notes)] ==
        IF n = 0
        THEN [ordered |-> <<>>, processed |-> HashSet_new(keys), via |-> <<>>]
        ELSE LET st == roots[n - 1] IN
             IF ~contains(st.processed, root_notes[n].id)
             THEN add_connected_notes_recursive(root_notes[n].id, doc,
                    push(st, root_notes[n], "root"))
             ELSE st
  IN roots[Len(root_notes)]

\* the orphans in the order a HashSet of them iterates
connections_traversal_hash_order(doc, keys) ==
  LET st == roots_traversal(doc, keys)
      rest == SelectSeq(doc.notes, LAMBDA n : ~contains(st.processed, n.id))
      iter == IF st.processed.keys = 1 THEN rest
              ELSE [i \in 1..Len(rest) |-> rest[Len(rest) + 1 - i]]
  IN [st EXCEPT !.ordered = @ \o iter,
                !.via = @ \o [i \in 1..Len(iter) |-> "orphan"]]

\* the orphans ahead of the roots and what they reach
connections_traversal_orphans_first(doc, keys) ==
  LET st == roots_traversal(doc, keys)
      rest == SelectSeq(doc.notes, LAMBDA n : ~contains(st.processed, n.id))
  IN [st EXCEPT !.ordered = rest \o @,
                !.via = [i \in 1..Len(rest) |-> "orphan"] \o @]

\* order_notes_by_connections with the traversal's variables as its result
connections_traversal(doc, keys) ==
  LET orphans[n \in 0..Len(doc.notes)] ==
        IF n = 0 THEN roots_traversal(doc, keys)
        ELSE LET st == orphans[n - 1] IN
             IF ~contains(st.processed, doc.notes[n].id)
             THEN [st EXCEPT !.ordered = Append(@, doc.notes[n]),
                             !.via = Append(@, "orphan")]
             ELSE st
  IN orphans[Len(doc.notes)]

order_notes_by_connections(doc, keys) == connections_traversal(doc, keys).ordered

\* the stacks, a note pushed each time it is named
stacks_traversal_repeating(doc, keys) ==
  LET members == [k \in 1..Len(doc.stacks) |-> doc.stacks[k].note_ids]
      flat[k \in 0..Len(members)] ==
        IF k = 0 THEN <<>> ELSE flat[k - 1] \o members[k]
      note_ids == flat[Len(members)]
      walk[n \in 0..Len(note_ids)] ==
        IF n = 0
        THEN [ordered |-> <<>>, processed |-> HashSet_new(keys), via |-> <<>>]
        ELSE LET st == walk[n - 1]
                 note == find_note(doc.notes, note_ids[n])
             IN IF note.some THEN push(st, note.v, "stack") ELSE st
  IN walk[Len(note_ids)]

\* the first loop of order_notes_hierarchically: the stacks, in order
stacks_traversal(doc, keys) ==
  LET members == [k \in 1..Len(doc.stacks) |-> doc.stacks[k].note_ids]
      flat[k \in 0..Len(members)] ==
        IF k = 0 THEN <<>> ELSE flat[k - 1] \o members[k]
      note_ids == flat[Len(members)]
      walk[n \in 0..Len(note_ids)] ==
        IF n = 0
        THEN [ordered |-> <<>>, processed |-> HashSet_new(keys), via |-> <<>>]
        ELSE LET st == walk[n - 1]
                 note == find_note(doc.notes, note_ids[n])
             IN IF note.some /\ ~contains(st.processed, note.v.id)
                THEN push(st, note.v, "stack")
                ELSE st
  IN walk[Len(note_ids)]

\* the remaining notes by connections first, the stacks after them
hierarchical_traversal_connections_first(doc, keys) ==
  LET stacked == stacks_traversal(doc, keys)
      remaining_notes ==
        SelectSeq(doc.notes, LAMBDA n : ~contains(stacked.processed, n.id))
      remaining == connections_traversal(
                     [doc EXCEPT !.notes = remaining_notes, !.stacks = <<>>], keys)
  IN [ordered |-> remaining.ordered \o stacked.ordered,
      processed |-> stacked.processed,
      via |-> remaining.via \o stacked.via]

\* order_notes_hierarchically with the traversal's variables as its result
hierarchical_traversal(doc, keys) ==
  LET stacked == stacks_traversal(doc, keys)
      remaining_notes ==
        SelectSeq(doc.notes, LAMBDA n : ~contains(stacked.processed, n.id))
      remaining == connections_traversal(
                     [doc EXCEPT !.notes = remaining_notes, !.stacks = <<>>], keys)
  IN [ordered |-> stacked.ordered \o remaining.ordered,
      processed |-> stacked.processed,
      via |-> stacked.via \o remaining.via]

order_notes_hierarchically(doc, keys) == hierarchical_traversal(doc, keys).ordered

\* keys: the hasher keys the run draws for its HashSets
order_notes_by_heuristic(doc, ordering, keys) ==
  CASE ordering = "connections" -> order_notes_by_connections(doc, keys)
    [] ordering = "hierarchical" -> order_notes_hierarchically(doc, keys)
    [] OTHER -> order_notes_spatially(doc)

---------------------------------------------------------------------------
(* The export of a board as text.  A text is its sequence of character    *)
(* codes.  An exported file is the sequence of the pieces the generator   *)
(* appends, each piece a record of the literal it stands for and of the   *)
(* values formatted into it; white space between pieces is left out.      *)

\* str::replace(from, to): every occurrence of the character, left to right
replace(text, from, to) ==
  LET out[n \in 0..Len(text)] ==
        IF n = 0 THEN <<>>
        ELSE LET done == out[n - 1] IN
             IF text[n] = from THEN done \o to ELSE Append(done, text[n])
  IN out[Len(text)]

\* rtf_escape with the backslash replaced last
rtf_escape_backslash_last(text) ==
  replace(replace(replace(replace(replace(text,
    123, <<92, 123>>),                  \* {  ->  \{
    125, <<92, 125>>),                  \* }  ->  \}
    10, <<92, 112, 97, 114, 32>>),      \* newline  ->  \par and a space
    9, <<92, 116, 97, 98, 32>>),        \* tab  ->  \tab and a space
    92, <<92, 92>>)                     \* \  ->  \\

rtf_escape(text) ==
  replace(replace(replace(replace(replace(text,
    92, <<92, 92>>),                    \* \  ->  \\
    123, <<92, 123>>),                  \* {  ->  \{
    125, <<92, 125>>),                  \* }  ->  \}
    10, <<92, 112, 97, 114, 32>>),      \* newline  ->  \par and a space
    9, <<92, 116, 97, 98, 32>>)         \* tab  ->  \tab and a space

\* opml_escape with the ampersand replaced last
opml_escape_ampersand_last(text) ==
  replace(replace(replace(replace(replace(text,
    60, <<38, 108, 116, 59>>),              \* <  ->  &lt;
    62, <<38, 103, 116, 59>>),              \* >  ->  &gt;
    34, <<38, 113, 117, 111, 116, 59>>),    \* "  ->  &quot;
    39, <<38, 35, 51, 57, 59>>),            \* '  ->  &#39;
    38, <<38, 97, 109, 112, 59>>)           \* &  ->  &amp;

opml_escape(text) ==
  replace(replace(replace(replace(replace(text,
    38, <<38, 97, 109, 112, 59>>),          \* &  ->  &amp;
    60, <<38, 108, 116, 59>>),              \* <  ->  &lt;
    62, <<38, 103, 116, 59>>),              \* >  ->  &gt;
    34, <<38, 113, 117, 111, 116, 59>>),    \* "  ->  &quot;
    39, <<38, 35, 51, 57, 59>>)             \* '  ->  &#39;

\* the concatenation of a sequence of sequences
concat(parts) ==
  LET joined[n \in 0..Len(parts)] ==
        IF n = 0 THEN <<>> ELSE joined[n - 1] \o parts[n]
  IN joined[Len(parts)]

\* iter().position(|n| n.id == id).map(|i| i + 1).unwrap_or(0)
index_of(notes, id) ==
  LET found == {i \in 1..Len(notes) : notes[i].id = id} IN
  IF found = {} THEN 0 ELSE CHOOSE i \in found : \A j \in found : i <= j

\* note.faded.unwrap_or(false)
is_faded(note) == note.faded.some /\ note.faded.v

\* the CONNECTIONS entries of the plain text, dangling connections included
txt_connections_unfiltered(doc, ordered_notes) ==
  concat([index \in 1..Len(doc.connections) |->
    LET conn == doc.connections[index]
        src_note == find_note(ordered_notes, conn.src_note_id)
        dst_note == find_note(ordered_notes, conn.dst_note_id)
    IN <<[piece |-> "connection", index |-> index,
          src_index |-> index_of(ordered_notes, conn.src_note_id),
          dst_index |-> index_of(ordered_notes, conn.dst_note_id),
          src_text |-> IF src_note.some THEN src_note.v.text ELSE <<>>,
          dst_text |-> IF dst_note.some THEN dst_note.v.text ELSE <<>>]>>])

\* the entries under CONNECTIONS: of the plain text
txt_connections(doc, ordered_notes) ==
  concat([index \in 1..Len(doc.connections) |->
    LET conn == doc.connections[index]
        src_note == find_note(ordered_notes, conn.src_note_id)
        dst_note == find_note(ordered_notes, conn.dst_note_id)
        src_index == index_of(ordered_notes, conn.src_note_id)
        dst_index == index_of(ordered_notes, conn.dst_note_id)
    IN IF ~(src_note.some /\ dst_note.some) \/ src_index = 0 \/ dst_index = 0
       THEN <<>>
       ELSE <<[piece |-> "connection", index |-> index,
               src_index |-> src_index, dst_index |-> dst_index,
               src_text |-> src_note.v.text, dst_text |-> dst_note.v.text]>>
            \o (IF conn.label.some
                THEN <<[piece |-> "Label:", label |-> conn.label.v]>> ELSE <<>>)
            \o (IF conn.style.some /\ conn.style.v.kind.some
                THEN <<[piece |-> "Style:", kind |-> conn.style.v.kind.v]>> ELSE <<>>)
            \o (IF /\ conn.style.some /\ conn.style.v.arrows.some
                   /\ conn.style.v.arrows.v # "none"
                THEN <<[piece |-> "Arrows:", arrows |-> conn.style.v.arrows.v]>>
                ELSE <<>>)])

\* the entries under STACKS: of the plain text
txt_stacks(doc, ordered_notes) ==
  concat([index \in 1..Len(doc.stacks) |->
    LET stack == doc.stacks[index] IN
    <<[piece |-> "stack", index |-> index, notes |-> Len(stack.note_ids)]>>
    \o concat([k \in 1..Len(stack.note_ids) |->
         LET note == find_note(ordered_notes, stack.note_ids[k]) IN
         IF note.some
         THEN <<[piece |-> "member",
                 note_index |-> index_of(ordered_notes, stack.note_ids[k]),
                 text |-> note.v.text]>>
         ELSE <<>>])])

\* the closing lines of the plain text and of the rich text
generated_footer(doc, ordering, now) ==
  <<[piece |-> "Generated:", at |-> now], [piece |-> "Ordering:", ordering |-> ordering],
    [piece |-> "counts", notes |-> Len(doc.notes), connections |-> Len(doc.connections)]>>

\* the plain text for the notes in the order of the linearizer
txt_output(doc, ordering, ordered_notes, now) ==
  Ok(<<[piece |-> "Freeform Idea Map Export"], [piece |-> "NOTES:"]>>
     \o concat([index \in 1..Len(ordered_notes) |->
          <<[piece |-> "note", index |-> index, text |-> ordered_notes[index].text]>>
          \o (IF is_faded(ordered_notes[index]) THEN <<[piece |-> "(faded)"]>> ELSE <<>>)])
     \o (IF doc.connections # <<>>
         THEN <<[piece |-> "CONNECTIONS:"]>> \o txt_connections(doc, ordered_notes)
         ELSE <<>>)
     \o (IF doc.stacks # <<>>
         THEN <<[piece |-> "STACKS:"]>> \o txt_stacks(doc, ordered_notes)
         ELSE <<>>)
     \o generated_footer(doc, ordering, now))

\* keys: the hasher keys of the linearizer's run; now: Utc::now()
generate_txt_content(doc, ordering, keys, now) ==
  txt_output(doc, ordering, order_notes_by_heuristic(doc, ordering, keys), now)

\* the entries under Connections of the rich text
rtf_connections(doc, ordered_notes) ==
  concat([index \in 1..Len(doc.connections) |->
    LET conn == doc.connections[index]
        src_note == find_note(ordered_notes, conn.src_note_id)
        dst_note == find_note(ordered_notes, conn.dst_note_id)
        src_index == index_of(ordered_notes, conn.src_note_id)
        dst_index == index_of(ordered_notes, conn.dst_note_id)
    IN IF ~(src_note.some /\ dst_note.some) \/ src_index = 0 \/ dst_index = 0
       THEN <<>>
       ELSE <<[piece |-> "connection", index |-> index,
               src_index |-> src_index, dst_index |-> dst_index,
               src_text |-> rtf_escape(src_note.v.text),
               dst_text |-> rtf_escape(dst_note.v.text)]>>
            \o (IF conn.label.some
                THEN <<[piece |-> "Label:", label |-> rtf_escape(conn.label.v)]>>
                ELSE <<>>)])

\* the rich text for the notes in the order of the linearizer
rtf_output(doc, ordering, ordered_notes, now) ==
  Ok(<<[piece |-> "{\\rtf1"], [piece |-> "Freeform Idea Map Export"], [piece |-> "Notes"]>>
     \o concat([index \in 1..Len(ordered_notes) |->
          <<[piece |-> "note", index |-> index,
             text |-> rtf_escape(ordered_notes[index].text)]>>
          \o (IF is_faded(ordered_notes[index]) THEN <<[piece |-> "(faded)"]>> ELSE <<>>)])
     \o (IF doc.connections # <<>>
         THEN <<[piece |-> "Connections"]>> \o rtf_connections(doc, ordered_notes)
         ELSE <<>>)
     \o generated_footer(doc, ordering, now)
     \o <<[piece |-> "}"]>>)

generate_rtf_content(doc, ordering, keys, now) ==
  rtf_output(doc, ordering, order_notes_by_heuristic(doc, ordering, keys), now)

has_children(note_id, doc) ==
  \E i \in 1..Len(doc.connections) : doc.connections[i].src_note_id = note_id

\* <outline text="..." and _faded="true" for a faded note: a start tag up to,
\* and without, the > or /> that ends it
outline_start(note) ==
  [piece |-> "<outline", text |-> opml_escape(note.text), faded |-> is_faded(note)]

\* the indent argument sets white space only
RECURSIVE add_note_to_opml_recursive(_, _, _, _)
add_note_to_opml_recursive(note, doc, ordered_notes, processed) ==
  IF contains(processed, note.id)
  THEN [opml |-> <<>>, processed |-> processed]
  ELSE
    LET outgoing == SelectSeq(doc.connections, LAMBDA c :
                      /\ c.src_note_id = note.id
                      /\ find_note(ordered_notes, c.dst_note_id).some)
        children == [k \in 1..Len(outgoing) |->
                       find_note(ordered_notes, outgoing[k].dst_note_id).v]
        nested[k \in 0..Len(children)] ==
          IF k = 0 THEN [opml |-> <<[piece |-> ">"]>>, processed |-> processed]
          ELSE LET st == nested[k - 1]
                   child == children[k]
                   marked == insert(st.processed, child.id)
               IN IF contains(st.processed, child.id) THEN st
                  ELSE IF has_children(child.id, doc)
                  THEN LET inner == add_note_to_opml_recursive(child, doc,
                                                               ordered_notes, marked)
                       IN [opml |-> st.opml \o <<outline_start(child)>> \o inner.opml
                                      \o <<[piece |-> "</outline>"]>>,
                           processed |-> inner.processed]
                  ELSE [opml |-> st.opml \o <<outline_start(child), [piece |-> "/"]>>,
                        processed |-> marked]
    IN IF children = <<>>
       THEN [opml |-> <<[piece |-> "/>"]>>, processed |-> processed]
       ELSE [opml |-> nested[Len(children)].opml \o <<[piece |-> "</outline>"]>>,
             processed |-> nested[Len(children)].processed]

\* the outline for the notes in the order of the linearizer
opml_output(doc, ordered_notes, keys, now) ==
  LET root_notes == SelectSeq(ordered_notes, LAMBDA note :
                      ~\E i \in 1..Len(doc.connections) :
                          doc.connections[i].dst_note_id = note.id)
      roots[k \in 0..Len(root_notes)] ==
        IF k = 0 THEN [opml |-> <<>>, processed |-> HashSet_new(keys)]
        ELSE LET st == roots[k - 1]
                 note == root_notes[k]
                 inner == add_note_to_opml_recursive(note, doc, ordered_notes,
                                                     insert(st.processed, note.id))
             IN IF contains(st.processed, note.id)
                THEN [opml |-> st.opml \o <<outline_start(note)>>,
                      processed |-> st.processed]
                ELSE [opml |-> st.opml \o <<outline_start(note)>> \o inner.opml
                                 \o <<[piece |-> "</outline>"]>>,
                      processed |-> inner.processed]
      processed == roots[Len(root_notes)].processed
      orphans == concat([k \in 1..Len(ordered_notes) |->
                   IF contains(processed, ordered_notes[k].id) THEN <<>>
                   ELSE <<outline_start(ordered_notes[k]), [piece |-> "/>"]>>])
  IN Ok(<<[piece |-> "<opml>"], [piece |-> "<head>", dateCreated |-> now],
          [piece |-> "<body>"]>>
        \o roots[Len(root_notes)].opml \o orphans
        \o <<[piece |-> "</body>"], [piece |-> "</opml>"]>>)

generate_opml_content(doc, ordering, keys, now) ==
  opml_output(doc, order_notes_by_heuristic(doc, ordering, keys), keys, now)

PlainFile(content) == [kind |-> "plain", content |-> content]

\* picked: the path the save dialog returns, None when it is cancelled;
\* generated: what the generator of the format returns, once the dialog has
\* returned a path
export_document_as_text(doc, format, ordering_arg, picked, keys) ==
  /\ Tick
  /\ \E generated \in
        {IF ~picked.some THEN Err("Export operation cancelled by user")
         ELSE LET ordering == IF ordering_arg.some THEN ordering_arg.v ELSE "spatial" IN
              CASE format = "rtf" -> generate_rtf_content(doc, ordering, keys, clock)
                [] format = "opml" -> generate_opml_content(doc, ordering, keys, clock)
                [] OTHER -> generate_txt_content(doc, ordering, keys, clock)} :
       /\ result' = [cmd |-> "export_document_as_text", doc |-> doc, format |-> format,
                     ordering |-> ordering_arg, picked |-> picked,
                     res |-> IF generated.ok THEN Ok(picked.v) ELSE generated]
       /\ fs' = IF generated.ok
                THEN [fs EXCEPT ![picked.v] = PlainFile(generated.v)]
                ELSE fs
  /\ UNCHANGED <<app_state_vars, lin, tasks>>

---------------------------------------------------------------------------
(* The commands statement by statement.  The commands are async and run on *)
(* the threads of the runtime, so two of them interleave between their     *)
(* statements; the session state is behind one Mutex.  A task is a command *)
(* in flight: `pc` names the statement it executes next, `locked` the task *)
(* that holds the Mutex.  A task takes the lock only when it is free.      *)

Tasks == {"t1", "t2"}

Free == "free"

IdleTask == [cmd |-> "none", pc |-> "idle"]

NoTasks == [locked |-> Free, run |-> [t \in Tasks |-> IdleTask]]

\* the task at its next statement, with the fields the statement has set
Goto(t, pc, fields) ==
  [tasks.run EXCEPT ![t] = [f \in DOMAIN @ \cup DOMAIN fields |->
                             IF f = "pc" THEN pc
                             ELSE IF f \in DOMAIN fields THEN fields[f] ELSE @[f]]]

\* the command returns
Return(t, res) == Goto(t, "done", [res |-> res])

\* the frontend invokes a command; call: the command and its arguments
invoke(t, call) ==
  /\ tasks.run[t].pc = "idle"
  /\ Tick
  /\ tasks' = [tasks EXCEPT !.run[t] = [f \in DOMAIN call \cup {"pc", "edited"} |->
                                          IF f = "pc" THEN call.cmd
                                          ELSE IF f = "edited" THEN FALSE
                                          ELSE call[f]]]
  /\ UNCHANGED <<fs, app_state_vars, result, lin>>

\* autosave_document up to the first write of save_as_recovery: the
\* validation, the AutosaveInfo with the time of day, the metadata file
autosave_write_metadata(t) ==
  /\ tasks.run[t].pc = "autosave_document"
  /\ Tick
  /\ LET task == tasks.run[t]
         recovery_path == get_recovery_path(task.file_path)
         autosave_info == [original_path |-> task.file_path,
                           recovery_path |-> recovery_path, timestamp |-> clock]
     IN IF ~autosave_validation(task.doc).ok
        THEN /\ tasks' = [tasks EXCEPT !.run = Return(t, autosave_validation(task.doc))]
             /\ fs' = fs
        ELSE /\ fs' = [fs EXCEPT ![metadata_path_of(recovery_path)] =
                         TextFile(to_string_pretty(AutosaveInfo, autosave_info))]
             /\ tasks' = [tasks EXCEPT !.run =
                            Goto(t, "save_as_fim", [autosave_info |-> autosave_info])]
  /\ UNCHANGED <<app_state_vars, result, lin>>

\* the second write of save_as_recovery: the container
autosave_write_payload(t) ==
  /\ tasks.run[t].cmd = "autosave_document"
  /\ tasks.run[t].pc = "save_as_fim"
  /\ Tick
  /\ fs' = [fs EXCEPT ![tasks.run[t].autosave_info.recovery_path] =
              Modified(save_as_fim(tasks.run[t].doc), clock)]
  /\ tasks' = [tasks EXCEPT !.run = Goto(t, "lock", << >>)]
  /\ UNCHANGED <<app_state_vars, result, lin>>

\* the locked block of autosave_document; the guard drops at its end
autosave_update_state(t) ==
  /\ tasks.run[t].cmd = "autosave_document"
  /\ tasks.run[t].pc = "lock"
  /\ tasks.locked = Free
  /\ Tick
  /\ last_autosave_time' = Some(clock)
  /\ is_dirty' = FALSE
  /\ tasks' = [tasks EXCEPT !.run = Return(t, Ok(tasks.run[t].autosave_info))]
  /\ UNCHANGED <<fs, recent_files, last_save_path, current_document_path, result, lin>>

\* save_document up to its write: the validation, the dialog, the match on
\* the extension
save_write(t) ==
  /\ tasks.run[t].pc = "save_document"
  /\ Tick
  /\ LET task == tasks.run[t]
         res == IF ~save_validation(task.doc).ok THEN save_validation(task.doc)
                ELSE IF ~task.picked.some THEN Err("Save operation cancelled by user")
                ELSE IF extension(task.picked.v) \notin {"fim", "json"}
                     THEN Err("Unsupported file format. Supported formats: .fim, .json")
                ELSE Ok(task.picked.v)
     IN IF res.ok
        THEN /\ fs' = [fs EXCEPT ![task.picked.v] = write_document(task.doc, task.picked.v)]
             /\ tasks' = [tasks EXCEPT !.run = Goto(t, "lock", << >>)]
        ELSE /\ fs' = fs
             /\ tasks' = [tasks EXCEPT !.run = Return(t, res)]
  /\ UNCHANGED <<app_state_vars, result, lin>>

\* save_document takes the lock and updates the session state; the guard
\* lives to the end of the block
save_update_state(t) ==
  /\ tasks.run[t].cmd = "save_document"
  /\ tasks.run[t].pc = "lock"
  /\ tasks.locked = Free
  /\ Tick
  /\ last_save_path' = Some(tasks.run[t].picked.v)
  /\ current_document_path' = Some(tasks.run[t].picked.v)
  /\ is_dirty' = FALSE
  /\ last_autosave_time' = Some(clock)
  /\ recent_files' = add_recent(recent_files, tasks.run[t].picked.v)
  /\ tasks' = [locked |-> t, run |-> Goto(t, "remove_recovery", << >>)]
  /\ UNCHANGED <<fs, result, lin>>

\* recovery_path.exists() and remove_file, inside the locked block
save_remove_recovery(t) ==
  /\ tasks.run[t].pc = "remove_recovery"
  /\ Tick
  /\ fs' = remove_file(fs, get_recovery_path(tasks.run[t].picked.v), {})
  /\ tasks' = [tasks EXCEPT !.run = Goto(t, "remove_metadata", << >>)]
  /\ UNCHANGED <<app_state_vars, result, lin>>

\* metadata_path.exists() and remove_file, inside the locked block; the
\* guard drops and the command returns
save_remove_metadata(t) ==
  /\ tasks.run[t].pc = "remove_metadata"
  /\ Tick
  /\ fs' = remove_file(fs, metadata_path_of(get_recovery_path(tasks.run[t].picked.v)), {})
  /\ tasks' = [locked |-> Free, run |-> Return(t, Ok(tasks.run[t].picked.v))]
  /\ UNCHANGED <<app_state_vars, result, lin>>

\* the commands with a written snapshot and the session state not yet updated
AwaitingUpdate ==
  {t \in Tasks : /\ tasks.run[t].cmd \in {"autosave_document", "save_document"}
                 /\ tasks.run[t].pc = "lock"}

\* set_document_dirty: the locked assignment.  `edited` notes, for a command
\* whose snapshot is written, an edit that came after the snapshot
set_document_dirty_locked(t) ==
  /\ tasks.run[t].pc = "set_document_dirty"
  /\ tasks.locked = Free
  /\ Tick
  /\ is_dirty' = tasks.run[t].dirty
  /\ tasks' = [tasks EXCEPT !.run =
                 [u \in Tasks |->
                    IF u = t THEN Return(t, Ok(tasks.run[t].dirty))[t]
                    ELSE IF u \in AwaitingUpdate /\ tasks.run[t].dirty
                         THEN [tasks.run[u] EXCEPT !.edited = TRUE]
                    ELSE tasks.run[u]]]
  /\ UNCHANGED <<fs, recent_files, last_save_path, current_document_path,
                 last_autosave_time, result, lin>>

\* get_autosave_status takes the lock and reads current_document_path
status_lock(t) ==
  /\ tasks.run[t].pc = "get_autosave_status"
  /\ tasks.locked = Free
  /\ Tick
  /\ tasks' = IF current_document_path.some
              THEN [locked |-> t,
                    run |-> Goto(t, "read_metadata", [current |-> current_document_path])]
              ELSE [tasks EXCEPT !.run = Return(t, Ok(None))]
  /\ UNCHANGED <<fs, app_state_vars, result, lin>>

\* metadata_path.exists(), read_to_string and from_str, inside the locked
\* block; the guard drops and the command returns
status_read_metadata(t) ==
  /\ tasks.run[t].pc = "read_metadata"
  /\ Tick
  /\ tasks' = [locked |-> Free,
               run |-> Return(t, autosave_status(fs, tasks.run[t].current))]
  /\ UNCHANGED <<fs, app_state_vars, result, lin>>

---------------------------------------------------------------------------
(* The sessions.  The application starts with an empty AppState (Default). *)
(* Each specification runs the commands of one part of the program, on a   *)
(* bounded number of commands.                                             *)

NoRun == [phase |-> "idle"]

InitAppState ==
  /\ recent_files = <<>>
  /\ last_save_path = None
  /\ current_document_path = None
  /\ last_autosave_time = None
  /\ is_dirty = FALSE
  /\ result = [cmd |-> "none"]
  /\ clock = 0

Picks(paths) == {Some(p) : p \in paths} \cup {None}

\* the removals of save_document that the file system may refuse
Refusals(picked) ==
  IF picked.some
  THEN SUBSET {q \in {get_recovery_path(picked.v),
                      metadata_path_of(get_recovery_path(picked.v))} : exists(fs, q)}
  ELSE {{}}

(* Opening and saving: at most one file another program left on disk. *)

InitStore ==
  /\ \E path \in {p \in DocumentPaths : extension(p) \in {"fim", "json"}} :
       \E file \in ForeignFiles(path) \cup {NoFile} :
         fs = [q \in AllPaths |-> IF q = path THEN file ELSE NoFile]
  /\ InitAppState
  /\ lin = NoRun
  /\ tasks = NoTasks

NextStore ==
  \/ clock < MaxStoreOps /\ \E picked \in Picks(DocumentPaths) : open_document(picked)
  \/ clock < MaxStoreOps /\ \E file_path \in DocumentPaths : open_specific_document(file_path)
  \/ clock < MaxStoreOps /\ \E doc \in EditorDocuments : \E picked \in Picks(DocumentPaths) :
       \E failing \in Refusals(picked) : save_document(doc, picked, failing)
  \/ clock < MaxStoreOps /\ get_recent_files
  \/ clock < MaxStoreOps /\ clear_recent_files

SpecStore == InitStore /\ [][NextStore]_vars

(* Checkpoints and recovery: the session starts with no file on disk. *)

CheckpointPaths == {P(<<"foo", "json">>), P(<<"bar", "fim">>)}

CheckpointDocuments ==
  {BlankDocument(0), BlankDocument(1), FullDocument(1), FullDocument(MaxVersion),
   HugeDocument}

InitRecovery ==
  /\ fs = [q \in AllPaths |-> NoFile]
  /\ InitAppState
  /\ lin = NoRun
  /\ tasks = NoTasks

NextRecovery ==
  \/ clock < MaxRecoveryOps /\ \E doc \in CheckpointDocuments :
       \E file_path \in CheckpointPaths : autosave_document(doc, file_path)
  \/ clock < MaxRecoveryOps /\
       \E recovery_path \in {get_recovery_path(p) : p \in CheckpointPaths}
                              \cup {P(<<"bar", "fim">>)} :
         recover_from_autosave(recovery_path)
  \/ clock < MaxRecoveryOps /\ \E doc \in {BlankDocument(1), FullDocument(MaxVersion)} :
       \E picked \in Picks(CheckpointPaths) :
         \E failing \in Refusals(picked) : save_document(doc, picked, failing)
  \/ clock < MaxRecoveryOps /\ get_autosave_status
  \/ clock < MaxRecoveryOps /\ \E file_path \in CheckpointPaths :
       set_current_document_path(file_path)
  \/ clock < MaxRecoveryOps /\ \E dirty \in BOOLEAN : set_document_dirty(dirty)
  \/ clock <= MaxRecoveryOps /\ \E search_paths \in SearchPaths :
       \E listing \in Listings(fs) : check_recovery_files(search_paths, listing)

SpecRecovery == InitRecovery /\ [][NextRecovery]_vars

(* The linearizer: a board is handed to order_notes_by_heuristic, once or   *)
(* again.  The boards are of three kinds.  Graph boards have three notes,   *)
(* connections among them and a note that does not exist, and stacks.       *)
(* Outline boards have four notes and three labelled connections.  Canvas   *)
(* boards have notes placed around the origin and nothing else.  Example    *)
(* boards are the boards the documentation works through.                   *)

MaxConnections == 2  \* connections of a graph board
MaxPlaced == 3       \* notes of a canvas board

ConnectionIds == <<"c1", "c2", "c3", "c4">>

\* the connections of a board from their endpoints and labels, ids by position
Connections(ends) ==
  [i \in 1..Len(ends) |->
     IF ends[i].label.some
     THEN LabelledConnection(ConnectionIds[i], ends[i].src, ends[i].dst, ends[i].label.v)
     ELSE BareConnection(ConnectionIds[i], ends[i].src, ends[i].dst)]

Board(notes, connections, stacks) ==
  [BlankDocument(1) EXCEPT !.notes = notes, !.connections = connections,
                           !.stacks = stacks]

GraphNotes ==
  <<BareNote("n1", <<98>>, 0, 0), BareNote("n2", <<97>>, 0, 0),
    BareNote("n3", <<98>>, 0, 0)>>

GraphEnds ==
  [src : {"n1", "n2", "n3", "nx"}, dst : {"n1", "n2", "n3", "nx"},
   label : {None, Some(<<97>>)}]

GraphStacks ==
  {<<>>,
   <<StackOf("k1", <<"n3", "nx", "n3">>), StackOf("k2", <<"n2", "n3">>)>>}

GraphBoard(ends, stacks) == Board(GraphNotes, Connections(ends), stacks)

OutlineNotes ==
  <<BareNote("n1", <<100>>, 0, 0), BareNote("n2", <<99>>, 0, 0),
    BareNote("n3", <<98>>, 0, 0), BareNote("n4", <<97>>, 0, 0)>>

OutlineEnds ==
  {e \in [src : {"n1", "n2"}, dst : {"n2", "n3", "n4"},
          label : {Some(<<66>>), Some(<<97>>), Some(<<122>>)}] : e.src # e.dst}

OutlineBoard(ends) == Board(OutlineNotes, Connections(ends), <<>>)

NoteIds == <<"n1", "n2", "n3", "n4">>

CanvasPlaces == [x : {0, 10}, y : {-100, -50, 50, 100}]

CanvasBoard(places) ==
  Board([i \in 1..Len(places) |->
           BareNote(NoteIds[i], <<97>>, places[i].x, places[i].y)], <<>>, <<>>)

\* notes A, B, C with A to B labelled "z" and A to C labelled "a"
LabelExample ==
  Board(GraphNotes,
        Connections(<<[src |-> "n1", dst |-> "n2", label |-> Some(<<122>>)],
                      [src |-> "n1", dst |-> "n3", label |-> Some(<<97>>)]>>),
        <<>>)

\* notes A, B, C with A in a stack, A to C and C to B
StackedRootExample ==
  Board(GraphNotes,
        Connections(<<[src |-> "n1", dst |-> "n3", label |-> None],
                      [src |-> "n3", dst |-> "n2", label |-> None]>>),
        <<StackOf("k1", <<"n1">>)>>)

\* notes A, B, C, D with texts "d", "c", "b", "a": A to D labelled "b", A to
\* B labelled "a", and A to C with no label
MixedLabelExample ==
  Board(OutlineNotes,
        Connections(<<[src |-> "n1", dst |-> "n4", label |-> Some(<<98>>)],
                      [src |-> "n1", dst |-> "n2", label |-> Some(<<97>>)],
                      [src |-> "n1", dst |-> "n3", label |-> None]>>),
        <<>>)

ExampleBoards == {LabelExample, StackedRootExample, MixedLabelExample}

Orderings == {"spatial", "connections", "hierarchical"}

\* the hasher keys a run may draw
HasherKeys == {1, 2}

\* a run of the linearizer on the board; a later run repeats the policy
linearize(ordering, keys) ==
  /\ lin.phase # "idle"
  /\ lin.phase = "done" => ordering = lin.ordering
  /\ lin' = [phase |-> "done", doc |-> lin.doc, ordering |-> ordering,
             again |-> (lin.phase = "done"),
             ordered |-> order_notes_by_heuristic(lin.doc, ordering, keys)]
  /\ UNCHANGED <<fs, app_state_vars, result, clock, tasks>>

InitLin ==
  /\ fs = [q \in AllPaths |-> NoFile]
  /\ InitAppState
  /\ tasks = NoTasks
  /\ \/ \E n \in 0..MaxConnections : \E ends \in [1..n -> GraphEnds] :
          \E stacks \in GraphStacks :
            lin = [phase |-> "input", doc |-> GraphBoard(ends, stacks)]
     \/ \E ends \in [1..3 -> OutlineEnds] :
          lin = [phase |-> "input", doc |-> OutlineBoard(ends)]
     \/ \E n \in 0..MaxPlaced : \E places \in [1..n -> CanvasPlaces] :
          lin = [phase |-> "input", doc |-> CanvasBoard(places)]
     \/ \E doc \in ExampleBoards : lin = [phase |-> "input", doc |-> doc]

NextLin == \E ordering \in Orderings : \E keys \in HasherKeys : linearize(ordering, keys)

SpecLin == InitLin /\ [][NextLin]_vars

(* The export: one board is exported once.  Graph boards have three notes  *)
(* with texts of their own, connections among them and a note that does    *)
(* not exist, and a stack.  Text boards have a note and a connection label *)
(* whose text is drawn from the characters the escapers replace.           *)

MaxExportConnections == 2
MaxTextLen == 2

ExportNotes ==
  <<BareNote("n1", <<98>>, 20, 0),
    [BareNote("n2", <<97>>, 10, 0) EXCEPT !.faded = Some(TRUE)],
    BareNote("n3", <<99>>, 0, 0)>>

ExportEnds ==
  [src : {"n1", "n2", "nx"}, dst : {"n1", "n2", "n3", "nx"}, label : {None}]

ExportStacks == {<<>>, <<StackOf("k1", <<"n3", "nx", "n1">>)>>}

ExportBoard(ends, stacks) == Board(ExportNotes, Connections(ends), stacks)

\* & < > " ' \ { } newline tab a
EscapedCharacters == {38, 60, 62, 34, 39, 92, 123, 125, 10, 9, 97}

\* He said "hi" & left
QuotedExample ==
  <<72, 101, 32, 115, 97, 105, 100, 32, 34, 104, 105, 34, 32, 38, 32,
    108, 101, 102, 116>>

TextBoard(text) ==
  Board(<<BareNote("n1", text, 0, 0), BareNote("n2", <<97>>, 10, 0)>>,
        Connections(<<[src |-> "n1", dst |-> "n2", label |-> Some(text)]>>),
        <<>>)

Formats == {"txt", "rtf", "opml", "pdf"}

OrderingArgs == {None, Some("bogus")} \cup {Some(o) : o \in Orderings}

ExportPicks == Picks({P(<<"foo", "txt">>)})

\* the hasher keys a run may draw, for the orderings that build a HashSet
KeysFor(ordering_arg) ==
  IF ordering_arg \in {Some("connections"), Some("hierarchical")}
  THEN HasherKeys ELSE {1}

InitExport ==
  /\ fs = [q \in AllPaths |-> NoFile]
  /\ InitAppState
  /\ lin = NoRun
  /\ tasks = NoTasks

NextExport ==
  \/ result.cmd = "none" /\ \E n \in 0..MaxExportConnections :
       \E ends \in [1..n -> ExportEnds] : \E stacks \in ExportStacks :
         \E format \in Formats : \E ordering_arg \in OrderingArgs :
           \E picked \in ExportPicks : \E keys \in KeysFor(ordering_arg) :
             export_document_as_text(ExportBoard(ends, stacks), format,
                                     ordering_arg, picked, keys)
  \/ result.cmd = "none" /\ \E n \in 0..MaxTextLen :
       \E text \in [1..n -> EscapedCharacters] \cup {QuotedExample} :
         \E format \in Formats : \E picked \in ExportPicks :
           export_document_as_text(TextBoard(text), format, None, picked, 1)

SpecExport == InitExport /\ [][NextExport]_vars

(* The recent files: the session has opened no document, nine or ten, and  *)
(* then runs open, save and clear commands on a path at the front of the   *)
(* list, one inside it, the one at its end and one not in it.              *)

MaxRecentOps == 2

RecentNames ==
  <<"r1", "r2", "r3", "r4", "r5", "r6", "r7", "r8", "r9", "r10", "r11">>

RecentPaths ==
  [i \in 1..Len(RecentNames) |->
     P(<<RecentNames[i], IF i = 5 THEN "json" ELSE "fim">>)]

\* the list after the paths 1..n were opened, the first one last
OpenedBefore(n) ==
  LET opened[k \in 0..n] ==
        IF k = 0 THEN <<>> ELSE add_recent(opened[k - 1], RecentPaths[n + 1 - k])
  IN opened[n]

ProbePaths ==
  {RecentPaths[1], RecentPaths[5], RecentPaths[MAX_RECENT_FILES],
   RecentPaths[MAX_RECENT_FILES + 1]}

InitRecent ==
  /\ fs = [q \in elements(RecentPaths) |-> write_document(BlankDocument(1), q)]
  /\ \E n \in {0, MAX_RECENT_FILES - 1, MAX_RECENT_FILES} :
       recent_files = OpenedBefore(n)
  /\ last_save_path = None
  /\ current_document_path = None
  /\ last_autosave_time = None
  /\ is_dirty = FALSE
  /\ result = [cmd |-> "none"]
  /\ clock = 0
  /\ lin = NoRun
  /\ tasks = NoTasks

NextRecent ==
  \/ clock < MaxRecentOps /\ \E picked \in Picks(ProbePaths) : open_document(picked)
  \/ clock < MaxRecentOps /\ \E file_path \in ProbePaths : open_specific_document(file_path)
  \/ clock < MaxRecentOps /\ \E doc \in {BlankDocument(0), BlankDocument(1)} :
       \E picked \in Picks(ProbePaths) : save_document(doc, picked, {})
  \/ clock < MaxRecentOps /\ get_recent_files
  \/ clock < MaxRecentOps /\ clear_recent_files

SpecRecent == InitRecent /\ [][NextRecent]_vars

(* Commands in flight: two tasks, each one command on a blank document. *)

Calls ==
  [cmd : {"autosave_document"}, doc : {BlankDocument(0), BlankDocument(1)},
   file_path : CheckpointPaths]
    \cup [cmd : {"save_document"}, doc : {BlankDocument(0), BlankDocument(1)},
          picked : Picks(CheckpointPaths)]
    \cup [cmd : {"set_document_dirty"}, dirty : BOOLEAN]
    \cup [cmd : {"get_autosave_status"}]

InitTasks ==
  /\ fs = [q \in AllPaths |-> NoFile]
  /\ InitAppState
  /\ lin = NoRun
  /\ tasks = NoTasks

NextTasks ==
  \E t \in Tasks :
    \/ \E call \in Calls : invoke(t, call)
    \/ autosave_write_metadata(t)
    \/ autosave_write_payload(t)
    \/ autosave_update_state(t)
    \/ save_write(t)
    \/ save_update_state(t)
    \/ save_remove_recovery(t)
    \/ save_remove_metadata(t)
    \/ set_document_dirty_locked(t)
    \/ status_lock(t)
    \/ status_read_metadata(t)

SpecTasks == InitTasks /\ [][NextTasks]_vars

---------------------------------------------------------------------------
(* Properties of the open/save session and of the recovery session *)

Opened(r) == r.cmd \in {"open_document", "open_specific_document"}
Saved(r) == r.cmd = "save_document" /\ r.res.ok
Checkpointed(r) == r.cmd = "autosave_document" /\ r.res.ok
BoardJsonLen(doc) == to_string_pretty(BoardDocument, doc).len

C2_SchemaGateOnLoad ==
  [][\A path \in DocumentPaths :
       (/\ Opened(result') /\ result'.picked = Some(path)
        /\ read_by_extension(fs, path).ok)
       => LET doc == read_by_extension(fs, path).v IN
          /\ doc.schema_version = 0
               => /\ result'.res = Err("Invalid or missing schema version")
                  /\ recent_files' = recent_files
          /\ doc.schema_version = 1 => result'.res = Ok(doc)
          /\ doc.schema_version > 1
               => /\ result'.res = Err("Unsupported schema version")
                  /\ recent_files' = recent_files]_vars

\* an open command met a file of a newer schema version
C2_Witness ==
  /\ Opened(result) /\ result.picked.some
  /\ read_by_extension(fs, result.picked.v).ok
  /\ read_by_extension(fs, result.picked.v).v.schema_version > 1
  /\ ~result.res.ok

\* C3 as stated: save_document and autosave_document reject every document
\* whose schema version is not 1, writing no file and changing no session state
C3_SchemaGateOnSave ==
  [][(/\ result'.cmd \in {"save_document", "autosave_document"}
      /\ result'.doc.schema_version # 1)
     => /\ ~result'.res.ok
        /\ fs' = fs
        /\ UNCHANGED app_state_vars]_vars

C10_SaveClearsRecovery ==
  /\ [](Saved(result) /\ result.failing = {}
          => /\ ~exists(fs, get_recovery_path(result.picked.v))
             /\ ~exists(fs, metadata_path_of(get_recovery_path(result.picked.v))))
  /\ [][(Saved(result) /\ result.failing = {} /\ result'.cmd = "get_autosave_status")
          => result'.res = Ok(None)]_vars
  /\ [](result.cmd = "save_document" /\ result.failing # {}
          => result.res.ok /\ exists(fs, result.picked.v))

\* a save removed both recovery files of a checkpoint of its path
C10_Witness ==
  /\ Saved(result)
  /\ result.removed = {get_recovery_path(result.picked.v),
                       metadata_path_of(get_recovery_path(result.picked.v))}

---------------------------------------------------------------------------
(* Properties of the linearizer *)

Linearized(ordering) == lin.phase = "done" /\ lin.ordering = ordering
Ids(notes) == [i \in 1..Len(notes) |-> notes[i].id]
Range(seq) == {seq[i] : i \in 1..Len(seq)}

\* where a note of the board stands in a sequence of notes (0: nowhere)
PositionIn(notes, id) ==
  IF \E i \in 1..Len(notes) : notes[i].id = id
  THEN CHOOSE i \in 1..Len(notes) : notes[i].id = id ELSE 0

\* C4 (the output is a permutation of the notes): after a run under any of
\* the three policies, the output has as many notes as the board, every note
\* of the board stands at exactly one position of the output, and every note
\* of the output is a note of the board - on boards with self-loops, doubled
\* connections, cycles, connections to or from a note that does not exist,
\* stacks naming unknown ids, and notes named by several stacks or twice by one.
C4_OutputIsPermutation ==
  lin.phase = "done"
    => /\ Len(lin.ordered) = Len(lin.doc.notes)
       /\ \A i \in 1..Len(lin.doc.notes) :
            Cardinality({j \in 1..Len(lin.ordered) :
                           lin.ordered[j] = lin.doc.notes[i]}) = 1
       /\ Range(lin.ordered) \subseteq Range(lin.doc.notes)

\* C4 witness: a hierarchical run on a board with a self-loop, a connection to
\* a note that does not exist, and stacks that name a note twice, an unknown
\* id, and one note in two stacks
C4_Witness ==
  /\ Linearized("hierarchical")
  /\ Len(lin.doc.stacks) = 2
  /\ \E i \in 1..Len(lin.doc.connections) :
       lin.doc.connections[i].src_note_id = lin.doc.connections[i].dst_note_id
  /\ \E i \in 1..Len(lin.doc.connections) :
       lin.doc.connections[i].dst_note_id = "nx"
  /\ Ids(lin.ordered) = <<"n3", "n2", "n1">>

LexLess(a, b) ==
  \E k \in 1..(Len(b)) :
    /\ \A i \in 1..(k - 1) : i <= Len(a) /\ a[i] = b[i]
    /\ \/ k = Len(a) + 1
       \/ k <= Len(a) /\ a[k] < b[k]

ConnectionById(doc, id) ==
  doc.connections[CHOOSE i \in 1..Len(doc.connections) : doc.connections[i].id = id]

\* the note was pushed as the destination of a connection
ViaConnection(doc, how) ==
  \E i \in 1..Len(doc.connections) : doc.connections[i].id = how

AllLabelled(doc, note_id) ==
  \A i \in 1..Len(doc.connections) :
    doc.connections[i].src_note_id = note_id
      => doc.connections[i].label.some /\ doc.connections[i].label.v # <<>>

\* the position of the note from whose connection the note at p was pushed
ParentOf(doc, t, p) ==
  IF ViaConnection(doc, t.via[p])
  THEN PositionIn(t.ordered, ConnectionById(doc, t.via[p]).src_note_id)
  ELSE 0

\* the note at r was pushed during the visit of the note at p
Within(doc, t, p, r) ==
  LET up[q \in 0..Len(t.ordered)] ==
        IF q = 0 THEN FALSE
        ELSE IF q = p THEN TRUE ELSE up[ParentOf(doc, t, q)]
  IN up[r]

\* C6 (labelled connections are followed in label order, depth first): after
\* a run by connections, for a visited note all of whose outgoing connections
\* carry non-empty labels: of two notes pushed as destinations of its
\* connections the one with the lesser label stands first; the notes pushed
\* during the visit of one such destination are exactly the notes from it up
\* to the next such destination; and every existing destination of its
\* connections either stands before it or was pushed during its visit.  And the board of notes A, B, C
\* with A to B labelled "z" and A to C labelled "a" gives A, C, B.
C6_LabelOrderDepthFirst ==
  Linearized("connections")
    => LET doc == lin.doc
           t == connections_traversal(doc, 1)
           n == Len(t.ordered)
       IN /\ t.ordered = lin.ordered
          /\ \A p \in 1..n : \A q \in 1..n :
               (/\ p # q
                /\ ViaConnection(doc, t.via[p]) /\ ViaConnection(doc, t.via[q])
                /\ ParentOf(doc, t, p) = ParentOf(doc, t, q)
                /\ AllLabelled(doc, ConnectionById(doc, t.via[p]).src_note_id))
               => /\ LexLess(ConnectionById(doc, t.via[p]).label.v,
                             ConnectionById(doc, t.via[q]).label.v) => p < q
                  /\ p < q => \A r \in q..n : ~Within(doc, t, p, r)
                  /\ (/\ p < q
                      /\ \A m \in (p + 1)..(q - 1) :
                           ParentOf(doc, t, m) # ParentOf(doc, t, p))
                     => \A r \in p..(q - 1) : Within(doc, t, p, r)
          /\ \A p \in 1..n : \A i \in 1..Len(doc.connections) :
               (/\ t.via[p] # "orphan"
                /\ doc.connections[i].src_note_id = t.ordered[p].id
                /\ AllLabelled(doc, t.ordered[p].id)
                /\ PositionIn(t.ordered, doc.connections[i].dst_note_id) > p)
               => Within(doc, t, p, PositionIn(t.ordered, doc.connections[i].dst_note_id))
          /\ doc = LabelExample => Ids(lin.ordered) = <<"n1", "n3", "n2">>

\* C6 witness: n1 has connections to n3 labelled "a" and to n2 labelled "B",
\* n2 one to n4; n2 is visited first, then its descendant n4, then n3
C6_Witness ==
  /\ Linearized("connections")
  /\ lin.doc = OutlineBoard(<<[src |-> "n1", dst |-> "n3", label |-> Some(<<97>>)],
                              [src |-> "n1", dst |-> "n2", label |-> Some(<<66>>)],
                              [src |-> "n2", dst |-> "n4", label |-> Some(<<122>>)]>>)
  /\ Ids(lin.ordered) = <<"n1", "n2", "n4", "n3">>

\* the ids the stacks name, stacks in list order, members in member order
StackMembers(doc) ==
  LET flat[k \in 0..Len(doc.stacks)] ==
        IF k = 0 THEN <<>> ELSE flat[k - 1] \o doc.stacks[k].note_ids
  IN flat[Len(doc.stacks)]

\* C7 (stacks first): after a hierarchical run the output begins with the
\* notes the stacks name, in the order named, each at its first naming and
\* unknown ids left out; so a note that some stack names stands before every
\* note that no stack names, whatever the connections.
C7_StacksFirst ==
  Linearized("hierarchical")
    => LET doc == lin.doc
           named == StackMembers(doc)
           first == {p \in 1..Len(named) :
                       /\ PositionIn(doc.notes, named[p]) # 0
                       /\ \A q \in 1..(p - 1) : named[q] # named[p]}
       IN /\ Len(lin.ordered) >= Cardinality(first)
          /\ \A p \in first :
               lin.ordered[Cardinality({q \in first : q <= p})].id = named[p]
          /\ \A i \in 1..Len(lin.ordered) : \A j \in 1..Len(lin.ordered) :
               (lin.ordered[i].id \in Range(named) /\ lin.ordered[j].id \notin Range(named))
               => i < j

\* C7 witness: n1 is in no stack and has a connection to the stacked n3; the
\* stacks name n3, an unknown id, n3 again, then n2 and n3
C7_Witness ==
  /\ Linearized("hierarchical")
  /\ StackMembers(lin.doc) = <<"n3", "nx", "n3", "n2", "n3">>
  /\ \E i \in 1..Len(lin.doc.connections) :
       /\ lin.doc.connections[i].src_note_id = "n1"
       /\ lin.doc.connections[i].dst_note_id = "n3"
  /\ \E i \in 1..Len(lin.doc.connections) :
       /\ lin.doc.connections[i].src_note_id = "n1"
       /\ lin.doc.connections[i].dst_note_id = "n2"
  /\ Ids(lin.ordered) = <<"n3", "n2", "n1">>

\* the row of a note: its vertical coordinate integer-divided by 100
RowOf(note) == note.frame.y \div 100

\* C8 (rows, then columns, then input order): after a spatial run, of two
\* notes of the output the earlier one is in a lesser row, or in the same row
\* further left, or in the same row at the same horizontal coordinate and
\* earlier in doc.notes - for negative and non-negative vertical coordinates.
C8_RowsThenColumns ==
  Linearized("spatial")
    => \A i \in 1..Len(lin.ordered) : \A j \in (i + 1)..Len(lin.ordered) :
         LET a == lin.ordered[i]
             b == lin.ordered[j]
         IN \/ RowOf(a) < RowOf(b)
            \/ RowOf(a) = RowOf(b) /\ a.frame.x < b.frame.x
            \/ /\ RowOf(a) = RowOf(b) /\ a.frame.x = b.frame.x
               /\ PositionIn(lin.doc.notes, a.id) < PositionIn(lin.doc.notes, b.id)

---------------------------------------------------------------------------
(* Discovery of recovery files *)

Discovered == result.cmd = "check_recovery_files"

HasMetadata(path) ==
  /\ exists(fs, metadata_path_of(path))
  /\ fs[metadata_path_of(path)].kind = "text"
  /\ from_str(AutosaveInfo, fs[metadata_path_of(path)].text, "").ok

\* the checkpoint time the metadata file beside a recovery file records
CheckpointTime(path) ==
  from_str(AutosaveInfo, fs[metadata_path_of(path)].text, "").v.timestamp

\* C11: check_for_recovery_files returns the candidates newest first: of two
\* recovery files whose checkpoints were taken at t1 < t2, the entry of the
\* one taken at t2 comes before the entry of the one taken at t1.
C11_NewestCheckpointFirst ==
  Discovered /\ result.res.ok =>
    \A i \in 1..Len(result.res.v) : \A j \in 1..Len(result.res.v) :
      (/\ i < j
       /\ HasMetadata(result.res.v[i].recovery_path)
       /\ HasMetadata(result.res.v[j].recovery_path))
      => ~(CheckpointTime(result.res.v[i].recovery_path)
             < CheckpointTime(result.res.v[j].recovery_path))

\* C11 as the code has it: the candidates come newest first by the second
\* their recovery file was last written in; of two recovery files whose
\* checkpoints fall in different seconds the later one comes first (two
\* checkpoints of one second come in the order the directory lists them).
C11_NewestSecondFirst ==
  Discovered /\ result.res.ok =>
    \A i \in 1..Len(result.res.v) : \A j \in 1..Len(result.res.v) :
      (/\ i < j
       /\ HasMetadata(result.res.v[i].recovery_path)
       /\ HasMetadata(result.res.v[j].recovery_path))
      => /\ ~(as_secs(CheckpointTime(result.res.v[i].recovery_path))
                < as_secs(CheckpointTime(result.res.v[j].recovery_path)))
         /\ result.res.v[i].timestamp >= result.res.v[j].timestamp

\* a discovery that found two checkpoints taken in different seconds
C11_Witness ==
  /\ Discovered /\ result.res.ok
  /\ \E i \in 1..Len(result.res.v) : \E j \in 1..Len(result.res.v) :
       /\ i < j
       /\ HasMetadata(result.res.v[i].recovery_path)
       /\ HasMetadata(result.res.v[j].recovery_path)
       /\ as_secs(CheckpointTime(result.res.v[i].recovery_path))
            > as_secs(CheckpointTime(result.res.v[j].recovery_path))

\* C12: a recovery pair with a missing counterpart is tolerated and treated
\* as not recoverable: discovery and get_autosave_status do not fail, discovery
\* lists no recovery file that lacks its metadata file, and the status query
\* reports no checkpoint whose recovery file is missing.
C12_HalfPairNotRecoverable ==
  /\ Discovered =>
       /\ result.res.ok
       /\ \A i \in 1..Len(result.res.v) :
            /\ exists(fs, result.res.v[i].recovery_path)
            /\ exists(fs, metadata_path_of(result.res.v[i].recovery_path))
  /\ result.cmd = "get_autosave_status" =>
       \/ ~current_document_path.some
       \/ /\ exists(fs, get_recovery_path(current_document_path.v))
          /\ exists(fs, metadata_path_of(get_recovery_path(current_document_path.v)))
       \/ result.res = Ok(None)

---------------------------------------------------------------------------
(* The read limit of the container *)

\* the kind of error a message of the load path stands for, in the taxonomy
\* of the specification
ErrorKind(e) ==
  CASE e \in {"Failed to open file", "Failed to read file"} -> "IoError"
    [] e \in {"Failed to read zip file", "Failed to find board.json in zip"} -> "FormatError"
    [] e \in {"Invalid JSON format in board.json", "Invalid JSON format"} -> "SerializationError"
    [] e \in {"Invalid or missing schema version", "Unsupported schema version"} -> "SchemaError"
    [] e = "Unsupported file format. Supported formats: .fim, .json" -> "UnsupportedFormatError"
    [] OTHER -> "Error"

\* the file is a container whose board.json is longer than the read limit
Oversize(file) ==
  /\ file.kind = "zip"
  /\ \E i \in 1..Len(file.entries) :
       /\ file.entries[i].name = "board.json"
       /\ file.entries[i].text.len > READ_LIMIT

\* C13: reading a container whose board.json is longer than the 100 MB limit
\* always fails, and with a resource-limit error: the load returns no document
\* and no error of another kind.
C13_OversizeIsResourceLimit ==
  (/\ Opened(result) /\ result.picked.some
   /\ extension(result.picked.v) = "fim"
   /\ Oversize(fs[result.picked.v]))
  => /\ ~result.res.ok
     /\ ErrorKind(result.res.e) = "ResourceLimitError"

---------------------------------------------------------------------------
(* Properties of the export *)

Exported == result.cmd = "export_document_as_text" /\ result.picked.some

\* the pieces of the exported file
Content == fs[result.picked.v].content

\* the positions of the exported file that hold a piece of the kind
PiecesOf(kind) == {k \in 1..Len(Content) : Content[k].piece = kind}

NoteIdsOf(doc) == {doc.notes[i].id : i \in 1..Len(doc.notes)}

\* the connections of the document whose source and destination are notes
Attached(doc) ==
  {i \in 1..Len(doc.connections) :
     /\ doc.connections[i].src_note_id \in NoteIdsOf(doc)
     /\ doc.connections[i].dst_note_id \in NoteIdsOf(doc)}

\* C14: content generation never fails on a dangling reference: for every
\* document, format and ordering the export that was given a path succeeds,
\* and under CONNECTIONS: of the plain text every connection whose source and
\* destination are notes is listed, once, and no other connection is.
C14_DanglingTolerated ==
  Exported =>
    /\ result.res.ok
    /\ result.format = "txt" =>
         /\ {Content[k].index : k \in PiecesOf("connection")} = Attached(result.doc)
         /\ Cardinality(PiecesOf("connection")) = Cardinality(Attached(result.doc))

\* a plain text of a board with a connection to or from a note that does not
\* exist and a connection between two notes
C14_Witness ==
  /\ Exported /\ result.res.ok /\ result.format = "txt"
  /\ Attached(result.doc) # {}
  /\ Attached(result.doc) # 1..Len(result.doc.connections)

(* The outline.  The pieces of the body are read as a parser reads them: a *)
(* start tag opens an element, /> and </outline> close the element that is *)
(* open.                                                                   *)

Outlined == Exported /\ result.res.ok /\ result.format = "opml"

\* the number of elements open before the piece at k
DepthBefore(k) ==
  Cardinality({j \in 1..(k - 1) : Content[j].piece = "<outline"})
    - Cardinality({j \in 1..(k - 1) : Content[j].piece \in {"/>", "/", "</outline>"}})

\* the start tags that carry the text of the note
NodesOf(note) ==
  {k \in PiecesOf("<outline") : Content[k].text = note.text}

NodeOf(note) == CHOOSE k \in NodesOf(note) : TRUE

\* the node at d lies within the element the node at s opens
Nested(d, s) == d > s /\ \A j \in (s + 1)..d : DepthBefore(j) > DepthBefore(s)

NoteOf(doc, id) == find_note(doc.notes, id).v

\* C15: the body of the outline is a forest that follows the connections:
\* every note without an incoming connection is a node at the top level, and
\* the destination of an outgoing connection of a node, unless it was emitted
\* before that node, is emitted nested inside it.
C15_OutlineFollowsConnections ==
  Outlined /\ result.doc.notes = ExportNotes =>
    /\ \A i \in 1..Len(ExportNotes) :
         ~has_incoming(result.doc, ExportNotes[i]) =>
           \E k \in NodesOf(ExportNotes[i]) : DepthBefore(k) = 0
    /\ \A i \in Attached(result.doc) :
         LET conn == result.doc.connections[i]
             s == NodeOf(NoteOf(result.doc, conn.src_note_id))
             d == NodeOf(NoteOf(result.doc, conn.dst_note_id))
         IN conn.src_note_id # conn.dst_note_id => d < s \/ Nested(d, s)

\* every start tag is ended by > or />, every > and /> ends a start tag, and
\* the end tags match the start tags ended by >
WellFormed ==
  /\ \A k \in PiecesOf("<outline") :
       k < Len(Content) /\ Content[k + 1].piece \in {">", "/>"}
  /\ \A k \in PiecesOf(">") \cup PiecesOf("/>") :
       k > 1 /\ Content[k - 1].piece = "<outline"
  /\ PiecesOf("/") = {}
  /\ \A k \in 1..Len(Content) :
       Cardinality({j \in PiecesOf("</outline>") : j <= k})
         <= Cardinality({j \in PiecesOf(">") : j <= k})
  /\ Cardinality(PiecesOf("</outline>")) = Cardinality(PiecesOf(">"))

\* C16: in the outline every note has exactly one node, for every graph of
\* connections (cycles, self-loops and repeated connections included), and
\* every outline element is well formed: its start tag is ended and it is
\* closed in the tag itself or by one matching end tag.
C16_OneWellFormedNodePerNote ==
  Outlined =>
    /\ Cardinality(PiecesOf("<outline")) = Len(result.doc.notes)
    /\ result.doc.notes = ExportNotes =>
         \A i \in 1..Len(ExportNotes) : Cardinality(NodesOf(ExportNotes[i])) = 1
    /\ WellFormed

(* The rich text *)

RichText == Exported /\ result.res.ok /\ result.format = "rtf"

\* C17: the rich text has the three sections of the plain text: for a
\* document with notes, connections and stacks it holds a notes section, a
\* connections section and a stacks section that lists the notes of each stack.
C17_RichTextHasThreeSections ==
  (/\ RichText /\ result.doc.notes # <<>>
   /\ result.doc.connections # <<>> /\ result.doc.stacks # <<>>)
  => /\ PiecesOf("Notes") # {}
     /\ PiecesOf("Connections") # {}
     /\ PiecesOf("Stacks") # {}
     /\ \A i \in 1..Len(result.doc.stacks) :
          \A j \in 1..Len(result.doc.stacks[i].note_ids) :
            LET note == find_note(result.doc.notes, result.doc.stacks[i].note_ids[j]) IN
            note.some =>
              \E k \in PiecesOf("member") : Content[k].text = rtf_escape(note.v.text)

(* The escapers.  The reference is the replacement in one pass: each        *)
(* character of the text is replaced on its own, and what replaces it is    *)
(* not looked at again.                                                     *)

Entity(c) ==
  CASE c = 38 -> <<38, 97, 109, 112, 59>>            \* &amp;
    [] c = 60 -> <<38, 108, 116, 59>>                \* &lt;
    [] c = 62 -> <<38, 103, 116, 59>>                \* &gt;
    [] c = 34 -> <<38, 113, 117, 111, 116, 59>>      \* &quot;
    [] c = 39 -> <<38, 35, 51, 57, 59>>              \* &#39;
    [] OTHER -> <<c>>

InOnePass(text, replacement) ==
  LET out[n \in 0..Len(text)] ==
        IF n = 0 THEN <<>> ELSE out[n - 1] \o replacement[text[n]]
  IN out[Len(text)]

Entities(text) == InOnePass(text, [c \in elements(text) |-> Entity(c)])

\* the text has an entity at position k
EntityAt(text, k) ==
  \E c \in {38, 60, 62, 34, 39} :
    /\ k + Len(Entity(c)) - 1 <= Len(text)
    /\ SubSeq(text, k, k + Len(Entity(c)) - 1) = Entity(c)

\* He said &quot;hi&quot; &amp; left
QuotedExampleEscaped ==
  <<72, 101, 32, 115, 97, 105, 100, 32, 38, 113, 117, 111, 116, 59, 104, 105,
    38, 113, 117, 111, 116, 59, 32, 38, 97, 109, 112, 59, 32, 108, 101, 102, 116>>

\* C18: the text attribute of an outline node holds no raw < > " or ', every
\* & in it begins an entity, and it is the note's text with each & < > " '
\* replaced by its one entity and nothing escaped twice; He said "hi" & left
\* becomes He said &quot;hi&quot; &amp; left.
C18_OutlineTextEscaped ==
  Outlined =>
    /\ \A k \in PiecesOf("<outline") :
         \A n \in 1..Len(Content[k].text) :
           /\ Content[k].text[n] \notin {60, 62, 34, 39}
           /\ Content[k].text[n] = 38 => EntityAt(Content[k].text, n)
    /\ {Content[k].text : k \in PiecesOf("<outline")}
         = {Entities(result.doc.notes[i].text) : i \in 1..Len(result.doc.notes)}
    /\ result.doc = TextBoard(QuotedExample) =>
         \E k \in PiecesOf("<outline") : Content[k].text = QuotedExampleEscaped

\* the outline of the note He said "hi" & left
C18_Witness == Outlined /\ result.doc = TextBoard(QuotedExample)

Control(c) ==
  CASE c = 92 -> <<92, 92>>                     \* \\
    [] c = 123 -> <<92, 123>>                   \* \{
    [] c = 125 -> <<92, 125>>                   \* \}
    [] c = 10 -> <<92, 112, 97, 114, 32>>       \* \par and a space
    [] c = 9 -> <<92, 116, 97, 98, 32>>         \* \tab and a space
    [] OTHER -> <<c>>

Controls(text) == InOnePass(text, [c \in elements(text) |-> Control(c)])

\* C19: every note text and connection label the rich text embeds has each
\* backslash, { and } preceded by exactly one escaping backslash, each newline
\* replaced by the paragraph break and each tab by the tab control word, and
\* the backslashes so introduced are not escaped again.
C19_RichTextEscaped ==
  RichText =>
    /\ {Content[k].text : k \in PiecesOf("note")}
         = {Controls(result.doc.notes[i].text) : i \in 1..Len(result.doc.notes)}
    /\ \A k \in PiecesOf("connection") :
         LET conn == result.doc.connections[Content[k].index] IN
         /\ Content[k].src_text = Controls(NoteOf(result.doc, conn.src_note_id).text)
         /\ Content[k].dst_text = Controls(NoteOf(result.doc, conn.dst_note_id).text)
    /\ {Content[k].label : k \in PiecesOf("Label:")}
         = {Controls(result.doc.connections[i].label.v) :
              i \in {j \in Attached(result.doc) : result.doc.connections[j].label.some}}

\* a rich text of a note and a label that hold a backslash and a brace
C19_Witness ==
  /\ RichText /\ PiecesOf("Label:") # {}
  /\ \E i \in 1..Len(result.doc.notes) :
       {92, 123} \subseteq elements(result.doc.notes[i].text)

(* The arguments of the export *)

\* C20: export_document_as_text rejects a format other than txt, rtf and opml
\* and an ordering other than spatial, connections and hierarchical with an
\* argument-validation error, and writes no file, also when the dialog has
\* returned a path.
C20_UnknownTagsRejected ==
  (/\ Exported
   /\ \/ result.format \notin {"txt", "rtf", "opml"}
      \/ result.ordering.some /\ result.ordering.v \notin Orderings)
  => /\ ~result.res.ok
     /\ ErrorKind(result.res.e) = "ArgumentValidationError"
     /\ \A q \in DOMAIN fs : fs[q] = NoFile

---------------------------------------------------------------------------
(* The extension of the path *)

UnsupportedFormat == Err("Unsupported file format. Supported formats: .fim, .json")

\* C21: an open command on a path, and a save of a document that passes the
\* validation to a path, whose extension is neither fim nor json returns the
\* unsupported-format error that names .fim and .json, and leaves every file
\* and the session state (recent files, last save path, current document
\* path, dirty flag, last autosave instant) as they were
C21_UnsupportedExtensionRejected ==
  [][(/\ \/ Opened(result')
         \/ /\ result'.cmd = "save_document"
            /\ save_validation(result'.doc).ok
      /\ result'.picked.some
      /\ extension(result'.picked.v) \notin {"fim", "json"})
     => /\ result'.res = UnsupportedFormat
        /\ fs' = fs
        /\ UNCHANGED app_state_vars]_vars

\* a save of a valid document to a path with the extension txt
C21_Witness ==
  /\ result.cmd = "save_document" /\ result.doc.schema_version = 1
  /\ result.picked.some /\ extension(result.picked.v) = "txt"
  /\ result.res = UnsupportedFormat

---------------------------------------------------------------------------
(* The document that recovery returns *)

Recovered == result.cmd = "recover_from_autosave" /\ result.res.ok

\* C24 as stated: the document that recover_from_autosave returns has schema
\* version 1, never 0 and never a newer version
C24_RecoveredSchemaGate ==
  Recovered => result.res.v.schema_version = 1

(* The session after a recovery *)

\* C27 as stated: after recover_from_autosave has succeeded on the recovery
\* path derived from a document path P, the current document path is P, the
\* dirty flag is set and the last autosave instant is unset
C27_RecoveredSessionState ==
  (Recovered /\ result.recovery_path \in RecoveryPaths)
  => /\ \E path \in DocumentPaths :
          /\ get_recovery_path(path) = result.recovery_path
          /\ current_document_path = Some(path)
     /\ is_dirty
     /\ last_autosave_time = None

---------------------------------------------------------------------------
(* The recovery path of a document path *)

\* the document paths of one directory: the paths of the session and a name
\* with no extension
SiblingPaths == DocumentPaths \cup {P(<<"foo">>)}

\* C29 as stated: get_recovery_path is injective within a directory: the
\* recovery file a checkpoint of P has just written is the recovery file of
\* no other document path of P's directory
C29_RecoveryPathInjective ==
  Checkpointed(result) =>
    \A other \in SiblingPaths \ {result.file_path} :
      get_recovery_path(other) # result.res.v.recovery_path

\* the document path the metadata file beside a recovery file records
CheckpointedPath(path) ==
  from_str(AutosaveInfo, fs[metadata_path_of(path)].text, "").v.original_path

\* C30 as stated: discovery inverts derivation: the entry that
\* check_for_recovery_files returns for the recovery file of a checkpoint of P
\* has recovery_path = get_recovery_path(P) and original_path = P
C30_DiscoveryInvertsDerivation ==
  Discovered /\ result.res.ok =>
    \A i \in 1..Len(result.res.v) :
      HasMetadata(result.res.v[i].recovery_path)
      => /\ result.res.v[i].recovery_path
              = get_recovery_path(CheckpointedPath(result.res.v[i].recovery_path))
         /\ result.res.v[i].original_path
              = CheckpointedPath(result.res.v[i].recovery_path)

---------------------------------------------------------------------------
(* The notes after the stacks *)

\* the notes no stack names, as a board, with the connections of the board
\* but those that begin or end at a stacked note
RemainingBoard(doc) ==
  LET named == Range(StackMembers(doc))
      stacked == {doc.notes[i].id : i \in {j \in 1..Len(doc.notes) :
                                             doc.notes[j].id \in named}}
  IN Board(SelectSeq(doc.notes, LAMBDA n : n.id \notin named),
           SelectSeq(doc.connections,
                     LAMBDA c : c.src_note_id \notin stacked
                                /\ c.dst_note_id \notin stacked),
           <<>>)

\* C26 as stated: after a hierarchical run the notes behind the stacked notes
\* are the connection order of the remaining notes and of the connections
\* among them: a remaining note whose incoming connections all come from
\* stacked notes is a root there, and the notes reachable from it follow it
C26_TailIsConnectionOrderOfRemaining ==
  Linearized("hierarchical")
    => \E keys \in HasherKeys :
         LET tail == order_notes_by_connections(RemainingBoard(lin.doc), keys)
         IN /\ Len(lin.ordered) >= Len(tail)
            /\ SubSeq(lin.ordered, Len(lin.ordered) - Len(tail) + 1, Len(lin.ordered))
                 = tail

---------------------------------------------------------------------------
(* The recent files *)

\* C23: after any interleaving of successful open, open-by-path, save and
\* clear-recent-files commands the recent-files list holds at most 10 paths
\* and no path twice; the path of the open or save that completed last is at
\* its front; and clear-recent-files leaves it empty
C23_RecentFilesBoundedAndDistinct ==
  /\ Len(recent_files) <= 10
  /\ \A i \in 1..Len(recent_files) : \A j \in 1..Len(recent_files) :
       i # j => recent_files[i] # recent_files[j]
  /\ (Opened(result) /\ result.res.ok) \/ Saved(result)
       => /\ recent_files # <<>>
          /\ recent_files[1] = result.picked.v
  /\ result.cmd = "clear_recent_files" => recent_files = <<>>

\* a list of ten paths has taken an eleventh at its front, and a path that was
\* inside it has then moved to the front
C23_Witness ==
  /\ Saved(result) \/ (Opened(result) /\ result.res.ok)
  /\ Len(recent_files) = MAX_RECENT_FILES
  /\ recent_files[1] = RecentPaths[5]
  /\ recent_files[2] = RecentPaths[MAX_RECENT_FILES + 1]
  /\ RecentPaths[MAX_RECENT_FILES] \notin Range(recent_files)

---------------------------------------------------------------------------
(* Commands in flight *)

\* the statements that check for a file, read, write or delete one
FileStatements ==
  {"autosave_document", "save_as_fim", "save_document", "remove_recovery",
   "remove_metadata", "read_metadata"}

\* C22 as stated: no command performs filesystem I/O while it holds the
\* session-state lock: a task whose next statement checks for, reads, writes
\* or deletes a file does not hold the lock
C22_NoFileAccessUnderLock ==
  \A t \in Tasks :
    tasks.run[t].pc \in FileStatements => tasks.locked # t

\* the checkpoints in flight that have written their metadata file
MetadataWritten ==
  {t \in Tasks :
     /\ tasks.run[t].cmd = "autosave_document"
     /\ tasks.run[t].pc \in {"save_as_fim", "lock"}
     /\ fs[metadata_path_of(tasks.run[t].autosave_info.recovery_path)]
          = TextFile(to_string_pretty(AutosaveInfo, tasks.run[t].autosave_info))}

\* C25 as stated: a checkpoint writes the recovery container first and the
\* metadata file last: wherever the checkpoint stops, if the metadata file it
\* wrote is on disk then the container of its document is on disk, whole
C25_PayloadBeforeMetadata ==
  \A t \in MetadataWritten :
    /\ exists(fs, tasks.run[t].autosave_info.recovery_path)
    /\ fs[tasks.run[t].autosave_info.recovery_path].entries
         = save_as_fim(tasks.run[t].doc).entries

\* C28 as stated: an edit is never lost to a snapshot it is not in: when
\* set_document_dirty(true) has completed after autosave_document or
\* save_document wrote its snapshot and before that command updated the
\* session state, the dirty flag is set when the command returns
C28_EditAfterSnapshotStaysDirty ==
  [][\A t \in Tasks :
       (/\ tasks.run[t].cmd \in {"autosave_document", "save_document"}
        /\ tasks.run[t].pc # "done" /\ tasks'.run[t].pc = "done"
        /\ tasks.run[t].edited)
       => is_dirty']_vars

---------------------------------------------------------------------------
(* The directories searched twice *)

\* C31 as stated: check_for_recovery_files reports each recovery file on disk
\* at most once, also when two of the four directories searched are the same
\* directory
C31_EachRecoveryFileOnce ==
  Discovered /\ result.res.ok =>
    \A i \in 1..Len(result.res.v) : \A j \in 1..Len(result.res.v) :
      i # j => result.res.v[i].recovery_path # result.res.v[j].recovery_path

---------------------------------------------------------------------------
(* The connection order: what the roots reach, and the rest *)

\* the ids of the notes with no incoming connection
RootIds(doc) ==
  {doc.notes[i].id : i \in {j \in 1..Len(doc.notes) : ~has_incoming(doc, doc.notes[j])}}

\* the ids of the notes that a root reaches along connections between notes,
\* the roots among them
ReachedIds(doc) ==
  LET step(from) ==
        from \cup {doc.connections[i].dst_note_id :
                     i \in {j \in 1..Len(doc.connections) :
                              /\ doc.connections[j].src_note_id \in from
                              /\ PositionIn(doc.notes, doc.connections[j].dst_note_id) # 0}}
      reach[k \in 0..Len(doc.notes)] ==
        IF k = 0 THEN RootIds(doc) ELSE step(reach[k - 1])
  IN reach[Len(doc.notes)]

\* C32: after a connections run (a) every note that a root reaches, the roots
\* apart, stands behind some note with a connection to it; (b) every note that
\* a root reaches stands before every note that no root reaches; (c) the notes
\* that no root reaches -- on a cycle, or with only dangling or looping
\* incoming connections -- come last, in the order of the document
C32_ReachedFirstOrphansInDocumentOrder ==
  Linearized("connections")
    => LET doc == lin.doc
           reached == ReachedIds(doc)
           n == Len(lin.ordered)
       IN /\ \A p \in 1..n :
               lin.ordered[p].id \in reached \ RootIds(doc)
               => \E q \in 1..(p - 1) : \E i \in 1..Len(doc.connections) :
                    /\ doc.connections[i].src_note_id = lin.ordered[q].id
                    /\ doc.connections[i].dst_note_id = lin.ordered[p].id
          /\ \A p \in 1..n : \A q \in 1..n :
               (lin.ordered[p].id \in reached /\ lin.ordered[q].id \notin reached)
               => p < q
          /\ SelectSeq(lin.ordered, LAMBDA note : note.id \notin reached)
               = SelectSeq(doc.notes, LAMBDA note : note.id \notin reached)

\* a root that reaches another note, and a note that no root reaches because
\* a connection of its own loops back to it
C32_Witness ==
  /\ Linearized("connections")
  /\ ReachedIds(lin.doc) \ RootIds(lin.doc) # {}
  /\ \E i \in 1..Len(lin.doc.notes) :
       /\ lin.doc.notes[i].id \notin ReachedIds(lin.doc)
       /\ \E k \in 1..Len(lin.doc.connections) :
            /\ lin.doc.connections[k].src_note_id = lin.doc.notes[i].id
            /\ lin.doc.connections[k].dst_note_id = lin.doc.notes[i].id

---------------------------------------------------------------------------
(* The comparison of the outgoing connections *)

\* the connections that leave a note, as the document lists them
Outgoing(doc, id) == SelectSeq(doc.connections, LAMBDA c : c.src_note_id = id)

\* the orders in which a document may list n connections
Listed(n) == {p \in [1..n -> 1..n] : \A i \in 1..n : \A j \in 1..n : i # j => p[i] # p[j]}

\* C33 as stated: on the outgoing connections of a note, labelled and
\* unlabelled ones together, the comparison of the sort is antisymmetric and
\* transitive, so where no two of them compare equal the sorted order is the
\* same in whatever order the document lists them
C33_ComparisonIsConsistent ==
  Linearized("connections")
    => \A n \in 1..Len(lin.doc.notes) :
         LET doc == lin.doc
             outgoing == Outgoing(doc, doc.notes[n].id)
             cmp == [a \in elements(outgoing), b \in elements(outgoing) |->
                       outgoing_cmp(doc, a, b)]
         IN /\ \A a \in elements(outgoing) : \A b \in elements(outgoing) :
                 cmp[a, b] = -cmp[b, a]
            /\ \A a \in elements(outgoing) : \A b \in elements(outgoing) :
                 \A c \in elements(outgoing) :
                   (cmp[a, b] = -1 /\ cmp[b, c] = -1) => cmp[a, c] = -1
            /\ (\A a \in elements(outgoing) : \A b \in elements(outgoing) :
                   a # b => cmp[a, b] # 0)
               => \A p \in Listed(Len(outgoing)) :
                    sort_by([i \in 1..Len(outgoing) |-> outgoing[p[i]]], cmp)
                      = sort_by(outgoing, cmp)

====
